---- MODULE Spec2Model ----
(***************************************************************************)
(* Retrieval & reranking pipeline of rag_agent.retrieval:                  *)
(*   RetrievalPipeline (pipeline.py), VectorDBRetriever                    *)
(*   (base_retriever.py), QueryTransformer (query_transformer.py) and      *)
(*   DocumentReranker (reranker.py).                                       *)
(*                                                                         *)
(* A Python str is a sequence of characters; a character is a one-element  *)
(* TLA+ string, a CJK character is written "uXXXX" (its code point).       *)
(***************************************************************************)
EXTENDS Integers, Sequences, FiniteSets, TLC

(***************************************************************************)
(* str primitives used by the code                                         *)
(***************************************************************************)

\* str.isspace characters (also the regex class \s)
Whitespace == {" ", "\t", "\n"}

AsciiUpperSeq ==
  <<"A", "B", "C", "D", "E", "F", "G", "H", "I", "J", "K", "L", "M",
    "N", "O", "P", "Q", "R", "S", "T", "U", "V", "W", "X", "Y", "Z">>

AsciiLowerSeq ==
  <<"a", "b", "c", "d", "e", "f", "g", "h", "i", "j", "k", "l", "m",
    "n", "o", "p", "q", "r", "s", "t", "u", "v", "w", "x", "y", "z">>

Digits == {"0", "1", "2", "3", "4", "5", "6", "7", "8", "9"}

\* the characters of the range 一-鿿 that occur in the tables
CJKChars ==
  {
    "u4E60", "u4EBA", "u4EE3", "u4F18", "u4F53", "u4F5C", "u4F7F", "u4FEE", "u50A8",
    "u5177", "u51B3", "u521D", "u5229", "u5236", "u52BF", "u5316", "u53C2", "u53D1",
    "u53D8", "u5411", "u5668", "u56F0", "u56FE", "u5883", "u589E", "u5904", "u590D",
    "u597D", "u59CB", "u5B58", "u5B66", "u5B8C", "u5B9A", "u5B9E", "u5BF9", "u5DE5",
    "u5E38", "u5E93", "u5E94", "u5EFA", "u5F00", "u5F02", "u5F0F", "u5F3A", "u5F81",
    "u5FD7", "u6001", "u6210", "u6218", "u624B", "u6267", "u6280", "u6311", "u636E",
    "u6392", "u63A8", "u6545", "u6570", "u6574", "u65B9", "u65E5", "u667A", "u672F",
    "u673A", "u6784", "u68C0", "u6BB5", "u6CD5", "u6D41", "u70B9", "u7279", "u72B6",
    "u73AF", "u73B0", "u7406", "u751F", "u7528", "u7565", "u77E5", "u7B54", "u7B56",
    "u7BA1", "u7D22", "u7F6E", "u80FD", "u8272", "u8282", "u884C", "u89E3", "u8A00",
    "u8BBE", "u8BC6", "u8BD5", "u8BED", "u8BEF", "u8C03", "u8FB9", "u8FBE", "u8FD0",
    "u914D", "u91C7", "u91CF", "u94FE", "u9519", "u95EE", "u9664", "u969C", "u96BE",
    "u9898"
  }

\* the regex class \w
WordChars ==
  {AsciiUpperSeq[i] : i \in 1..26} \cup {AsciiLowerSeq[i] : i \in 1..26}
    \cup Digits \cup {"_"} \cup CJKChars

\* the punctuation the whitelist of normalize_query keeps
BasicPunct ==
  {".", ",", "!", "?", ";", ":", "(", ")", "[", "]", "{", "}", "\"", "'", "-"}

Min(a, b) == IF a < b THEN a ELSE b

Max(a, b) == IF a > b THEN a ELSE b

\* one character of str.lower()
LowerChar(c) ==
  IF \E i \in 1..26 : AsciiUpperSeq[i] = c
    THEN AsciiLowerSeq[CHOOSE i \in 1..26 : AsciiUpperSeq[i] = c]
    ELSE c

\* str.lower()
Lower(s) == [i \in 1..Len(s) |-> LowerChar(s[i])]

RECURSIVE LStrip(_)
LStrip(s) ==
  IF s # <<>> /\ Head(s) \in Whitespace THEN LStrip(Tail(s)) ELSE s

RECURSIVE RStrip(_)
RStrip(s) ==
  IF s # <<>> /\ s[Len(s)] \in Whitespace
    THEN RStrip(SubSeq(s, 1, Len(s) - 1))
    ELSE s

\* str.strip()
Strip(s) == RStrip(LStrip(s))

\* s[i:] starts with sub
StartsAt(s, i, sub) ==
  /\ i + Len(sub) - 1 <= Len(s)
  /\ SubSeq(s, i, i + Len(sub) - 1) = sub

\* sub in s
Contains(s, sub) == \E i \in 1..(Len(s) + 1) : StartsAt(s, i, sub)

\* str.count(sub): non-overlapping occurrences, left to right
RECURSIVE CountFrom(_, _, _)
CountFrom(s, i, sub) ==
  IF i > Len(s) + 1 THEN 0
  ELSE IF sub = <<>> THEN Len(s) + 2 - i
  ELSE IF StartsAt(s, i, sub) THEN 1 + CountFrom(s, i + Len(sub), sub)
  ELSE CountFrom(s, i + 1, sub)

StrCount(s, sub) == CountFrom(s, 1, sub)

\* str.replace(old, new) for a non-empty old
RECURSIVE ReplaceFrom(_, _, _, _)
ReplaceFrom(s, i, old, new) ==
  IF i > Len(s) THEN <<>>
  ELSE IF StartsAt(s, i, old) THEN new \o ReplaceFrom(s, i + Len(old), old, new)
  ELSE <<s[i]>> \o ReplaceFrom(s, i + 1, old, new)

StrReplace(s, old, new) == ReplaceFrom(s, 1, old, new)

\* str.split(): the maximal runs of non-whitespace characters, in order
RECURSIVE SplitFrom(_, _, _)
SplitFrom(s, i, word) ==
  IF i > Len(s) THEN (IF word = <<>> THEN <<>> ELSE <<word>>)
  ELSE IF s[i] \in Whitespace
    THEN (IF word = <<>> THEN <<>> ELSE <<word>>) \o SplitFrom(s, i + 1, <<>>)
  ELSE SplitFrom(s, i + 1, Append(word, s[i]))

Split(s) == SplitFrom(s, 1, <<>>)

\* set(seq)
ToSet(seq) == {seq[i] : i \in 1..Len(seq)}

\* a + " " + b
JoinSpace(a, b) == a \o <<" ">> \o b

(***************************************************************************)
(* QueryTransformer                                                        *)
(***************************************************************************)

\* re.sub(r'\s+', ' ', s)
RECURSIVE CollapseFrom(_, _)
CollapseFrom(s, i) ==
  IF i > Len(s) THEN <<>>
  ELSE IF s[i] \in Whitespace
    THEN (IF i > 1 /\ s[i - 1] \in Whitespace THEN <<>> ELSE <<" ">>)
           \o CollapseFrom(s, i + 1)
  ELSE <<s[i]>> \o CollapseFrom(s, i + 1)

CollapseWhitespace(s) == CollapseFrom(s, 1)

\* the characters the second re.sub of normalize_query keeps
Whitelisted(c) == c \in WordChars \cup Whitespace \cup BasicPunct

\* re.sub(r'[^\w\s一-鿿.,!?;:()\[\]{}"\'-]', '', s)
RemoveSpecial(s) == SelectSeq(s, Whitelisted)

normalize_query(query) == RemoveSpecial(CollapseWhitespace(Strip(query)))

tech_mappings ==
  <<
    [key |-> <<"A", "I">>,
     vals |-> <<
       <<"u4EBA", "u5DE5", "u667A", "u80FD">>,
       <<"A", "r", "t", "i", "f", "i", "c", "i", "a", "l", " ", "I", "n", "t", "e", "l", "l", "i", "g", "e", "n", "c", "e">>,
       <<"u673A", "u5668", "u5B66", "u4E60">>,
       <<"M", "L">>
     >>],
    [key |-> <<"u4EBA", "u5DE5", "u667A", "u80FD">>,
     vals |-> <<
       <<"A", "I">>,
       <<"A", "r", "t", "i", "f", "i", "c", "i", "a", "l", " ", "I", "n", "t", "e", "l", "l", "i", "g", "e", "n", "c", "e">>,
       <<"u673A", "u5668", "u5B66", "u4E60">>,
       <<"M", "L">>
     >>],
    [key |-> <<"L", "a", "n", "g", "C", "h", "a", "i", "n">>,
     vals |-> <<
       <<"l", "a", "n", "g", "c", "h", "a", "i", "n">>,
       <<"L", "a", "n", "g", " ", "C", "h", "a", "i", "n">>,
       <<"u8BED", "u8A00", "u94FE">>
     >>],
    [key |-> <<"L", "a", "n", "g", "G", "r", "a", "p", "h">>,
     vals |-> <<
       <<"l", "a", "n", "g", "g", "r", "a", "p", "h">>,
       <<"L", "a", "n", "g", " ", "G", "r", "a", "p", "h">>,
       <<"u8BED", "u8A00", "u56FE">>
     >>],
    [key |-> <<"R", "A", "G">>,
     vals |-> <<
       <<"u68C0", "u7D22", "u589E", "u5F3A", "u751F", "u6210">>,
       <<"R", "e", "t", "r", "i", "e", "v", "a", "l", " ", "A", "u", "g", "m", "e", "n", "t", "e", "d", " ", "G", "e", "n", "e", "r", "a", "t", "i", "o", "n">>,
       <<"u68C0", "u7D22", "u589E", "u5F3A">>
     >>],
    [key |-> <<"u5411", "u91CF", "u6570", "u636E", "u5E93">>,
     vals |-> <<
       <<"v", "e", "c", "t", "o", "r", " ", "d", "a", "t", "a", "b", "a", "s", "e">>,
       <<"v", "e", "c", "t", "o", "r", "s", "t", "o", "r", "e">>,
       <<"u5411", "u91CF", "u5B58", "u50A8">>
     >>],
    [key |-> <<"A", "g", "e", "n", "t">>,
     vals |-> <<
       <<"u667A", "u80FD", "u4F53">>,
       <<"u4EE3", "u7406">>,
       <<"a", "g", "e", "n", "t">>
     >>],
    [key |-> <<"u667A", "u80FD", "u4F53">>,
     vals |-> <<
       <<"A", "g", "e", "n", "t">>,
       <<"u4EE3", "u7406">>,
       <<"a", "g", "e", "n", "t">>
     >>]
  >>

synonym_mappings ==
  <<
    [key |-> <<"u4F18", "u52BF">>,
     vals |-> <<
       <<"u597D", "u5904">>,
       <<"u4F18", "u70B9">>,
       <<"u7279", "u70B9">>,
       <<"u7279", "u8272">>
     >>],
    [key |-> <<"u7279", "u70B9">>,
     vals |-> <<
       <<"u7279", "u8272">>,
       <<"u7279", "u5F81">>,
       <<"u4F18", "u52BF">>,
       <<"u4F18", "u70B9">>
     >>],
    [key |-> <<"u4F7F", "u7528">>,
     vals |-> <<
       <<"u5E94", "u7528">>,
       <<"u8FD0", "u7528">>,
       <<"u5229", "u7528">>,
       <<"u91C7", "u7528">>
     >>],
    [key |-> <<"u65B9", "u6CD5">>,
     vals |-> <<
       <<"u65B9", "u5F0F">>,
       <<"u7B56", "u7565">>,
       <<"u6280", "u672F">>,
       <<"u624B", "u6BB5">>
     >>],
    [key |-> <<"u5B9E", "u73B0">>,
     vals |-> <<
       <<"u5B8C", "u6210">>,
       <<"u8FBE", "u6210">>,
       <<"u6784", "u5EFA">>,
       <<"u5F00", "u53D1">>
     >>],
    [key |-> <<"u914D", "u7F6E">>,
     vals |-> <<
       <<"u8BBE", "u7F6E">>,
       <<"u914D", "u5236">>,
       <<"u8BBE", "u5B9A">>,
       <<"u8C03", "u6574">>
     >>],
    [key |-> <<"u95EE", "u9898">>,
     vals |-> <<
       <<"u56F0", "u96BE">>,
       <<"u6311", "u6218">>,
       <<"u96BE", "u9898">>,
       <<"u6545", "u969C">>
     >>],
    [key |-> <<"u89E3", "u51B3">>,
     vals |-> <<
       <<"u5904", "u7406">>,
       <<"u89E3", "u7B54">>,
       <<"u4FEE", "u590D">>,
       <<"u5E94", "u5BF9">>
     >>]
  >>

context_rules ==
  <<
    [key |-> <<"L", "a", "n", "g", "G", "r", "a", "p", "h">>,
     vals |-> <<
       <<"u5DE5", "u4F5C", "u6D41">>,
       <<"u72B6", "u6001", "u7BA1", "u7406">>,
       <<"u8282", "u70B9">>,
       <<"u8FB9">>
     >>],
    [key |-> <<"A", "g", "e", "n", "t">>,
     vals |-> <<
       <<"u5DE5", "u5177">>,
       <<"u63A8", "u7406">>,
       <<"u51B3", "u7B56">>,
       <<"u6267", "u884C">>
     >>],
    [key |-> <<"R", "A", "G">>,
     vals |-> <<
       <<"u68C0", "u7D22">>,
       <<"u751F", "u6210">>,
       <<"u77E5", "u8BC6", "u5E93">>,
       <<"u5411", "u91CF">>
     >>],
    [key |-> <<"u914D", "u7F6E">>,
     vals |-> <<
       <<"u53C2", "u6570">>,
       <<"u8BBE", "u7F6E">>,
       <<"u73AF", "u5883", "u53D8", "u91CF">>,
       <<"u521D", "u59CB", "u5316">>
     >>],
    [key |-> <<"u9519", "u8BEF">>,
     vals |-> <<
       <<"u8C03", "u8BD5">>,
       <<"u65E5", "u5FD7">>,
       <<"u5F02", "u5E38">>,
       <<"u6545", "u969C", "u6392", "u9664">>
     >>]
  >>

\* the inner loop of _expand_by_keywords for one table entry
RECURSIVE KeywordVals(_, _, _)
KeywordVals(query, vals, j) ==
  IF j > Len(vals) THEN <<>>
  ELSE (IF ~Contains(Lower(query), Lower(vals[j]))
          THEN <<JoinSpace(query, vals[j])>>
          ELSE <<>>)
        \o KeywordVals(query, vals, j + 1)

RECURSIVE KeywordTerms(_, _)
KeywordTerms(query, i) ==
  IF i > Len(tech_mappings) THEN <<>>
  ELSE (IF Contains(Lower(query), Lower(tech_mappings[i].key))
          THEN KeywordVals(query, tech_mappings[i].vals, 1)
          ELSE <<>>)
        \o KeywordTerms(query, i + 1)

expand_by_keywords(query) == KeywordTerms(query, 1)

\* the inner loop of _expand_by_synonyms for one table entry
RECURSIVE SynonymVals(_, _, _, _)
SynonymVals(query, word, vals, j) ==
  IF j > Len(vals) THEN <<>>
  ELSE (IF StrReplace(query, word, vals[j]) # query
          THEN <<StrReplace(query, word, vals[j])>>
          ELSE <<>>)
        \o SynonymVals(query, word, vals, j + 1)

RECURSIVE SynonymWords(_, _)
SynonymWords(query, i) ==
  IF i > Len(synonym_mappings) THEN <<>>
  ELSE (IF Contains(query, synonym_mappings[i].key)
          THEN SynonymVals(query, synonym_mappings[i].key,
                           synonym_mappings[i].vals, 1)
          ELSE <<>>)
        \o SynonymWords(query, i + 1)

expand_by_synonyms(query) == SynonymWords(query, 1)

\* the inner loop of _expand_by_context for one rule
RECURSIVE ContextVals(_, _, _)
ContextVals(query, vals, j) ==
  IF j > Len(vals) THEN <<>>
  ELSE (IF ~Contains(query, vals[j])
          THEN <<JoinSpace(query, vals[j])>>
          ELSE <<>>)
        \o ContextVals(query, vals, j + 1)

RECURSIVE ContextKeys(_, _)
ContextKeys(query, i) ==
  IF i > Len(context_rules) THEN <<>>
  ELSE (IF Contains(Lower(query), Lower(context_rules[i].key))
          THEN ContextVals(query, context_rules[i].vals, 1)
          ELSE <<>>)
        \o ContextKeys(query, i + 1)

expand_by_context(query) == ContextKeys(query, 1)

\* the order-preserving deduplication loop of expand_query
RECURSIVE UniqueQueries(_, _, _)
UniqueQueries(queries, i, seen) ==
  IF i > Len(queries) THEN <<>>
  ELSE IF queries[i] \notin seen /\ Strip(queries[i]) # <<>>
    THEN <<queries[i]>> \o UniqueQueries(queries, i + 1, seen \cup {queries[i]})
    ELSE UniqueQueries(queries, i + 1, seen)

expand_query(query) ==
  UniqueQueries(<<query>> \o expand_by_keywords(query)
                  \o expand_by_synonyms(query)
                  \o expand_by_context(query),
                1, {})

\* QueryTransformer.transform
transform(query, expand, normalize) ==
  LET normalized == IF normalize THEN normalize_query(query) ELSE query
  IN  IF expand THEN expand_query(normalized) ELSE <<normalized>>

(***************************************************************************)
(* Values                                                                  *)
(***************************************************************************)

\* None, and a value that is not None (an Optional[...] of the code)
NoneV == <<>>

Some(v) == <<v>>

\* a langchain Document: page_content is a str, metadata is opaque
Document(content, meta) == [page_content |-> content, metadata |-> meta]

\* lst[:n] of Python, n an int
PySlice(lst, n) ==
  IF n >= 0 THEN SubSeq(lst, 1, Min(n, Len(lst)))
  ELSE SubSeq(lst, 1, Max(Len(lst) + n, 0))

\* sum of f over the finite set S
RECURSIVE SetSum(_, _)
SetSum(f, S) ==
  IF S = {} THEN 0
  ELSE LET e == CHOOSE e \in S : TRUE IN f[e] + SetSum(f, S \ {e})

(***************************************************************************)
(* DocumentReranker.  Scores are fixed-point numbers: one unit is 10^-7.   *)
(***************************************************************************)

\* 10^6: the unit of the four component scores
Scale == 1000000

\* round(10^6 * math.log(n)) for n = 1..17
LogMicro ==
  <<0, 693147, 1098612, 1386294, 1609438, 1791759, 1945910, 2079442,
    2197225, 2302585, 2397895, 2484907, 2564949, 2639057, 2708050,
    2772589, 2833213>>

\* round(10^6 / (1 + math.log(1 + n / 100))) for n = 0..12, at index n + 1
LengthPenaltyMicro ==
  <<1000000, 990148, 980582, 971290, 962259, 953480, 944939, 936629,
    928539, 920660, 912983, 905502, 898207>>

\* _calculate_relevance_score without min(word_freq_score, 1.0) and without
\* min(final_score, 1.0)
RelevanceScoreUncapped(query, document) ==
  LET doc_content == Lower(document.page_content)
      query_lower == Lower(query)
      exact_match_score == IF Contains(doc_content, query_lower) THEN Scale ELSE 0
      query_words == ToSet(Split(query_lower))
      doc_words == ToSet(Split(doc_content))
      keyword_score ==
        IF query_words = {} THEN 0
        ELSE (Cardinality(query_words \cap doc_words) * Scale)
               \div Cardinality(query_words)
      freq == [w \in query_words |->
                 IF Contains(doc_content, w)
                   THEN LogMicro[1 + StrCount(doc_content, w)]
                   ELSE 0]
      word_freq_score ==
        IF query_words = {} THEN 0
        ELSE SetSum(freq, query_words) \div Cardinality(query_words)
      length_penalty == LengthPenaltyMicro[Len(Split(doc_content)) + 1]
  IN  4 * exact_match_score + 3 * keyword_score + 2 * word_freq_score
        + length_penalty

\* _calculate_relevance_score, in units of 10^-7
calculate_relevance_score(query, document) ==
  LET doc_content == Lower(document.page_content)
      query_lower == Lower(query)
      exact_match_score == IF Contains(doc_content, query_lower) THEN Scale ELSE 0
      query_words == ToSet(Split(query_lower))
      doc_words == ToSet(Split(doc_content))
      keyword_score ==
        IF query_words = {} THEN 0
        ELSE (Cardinality(query_words \cap doc_words) * Scale)
               \div Cardinality(query_words)
      freq == [w \in query_words |->
                 IF Contains(doc_content, w)
                   THEN LogMicro[1 + StrCount(doc_content, w)]
                   ELSE 0]
      word_freq_score ==
        IF query_words = {} THEN 0
        ELSE Min(SetSum(freq, query_words) \div Cardinality(query_words), Scale)
      doc_length == Len(Split(doc_content))
      length_penalty == LengthPenaltyMicro[doc_length + 1]
      final_score == 4 * exact_match_score + 3 * keyword_score
                       + 2 * word_freq_score + length_penalty
  IN  Min(final_score, 10 * Scale)

\* _calculate_document_similarity (Jaccard), in units of 10^-7
calculate_document_similarity(doc1, doc2) ==
  LET content1 == ToSet(Split(Lower(doc1.page_content)))
      content2 == ToSet(Split(Lower(doc2.page_content)))
  IN  IF content1 = {} \/ content2 = {} THEN 0
      ELSE (Cardinality(content1 \cap content2) * 10 * Scale)
             \div Cardinality(content1 \cup content2)

\* list.sort(key, reverse=True) on the positions 1..Len(scores): descending
\* by score, positions with equal scores in their original order
RECURSIVE SortFrom(_, _)
SortFrom(scores, r) ==
  IF r > Len(scores) THEN <<>>
  ELSE LET N == Len(scores)
           Before(j, i) == scores[j] > scores[i] \/ (scores[j] = scores[i] /\ j < i)
           Rank(i) == 1 + Cardinality({j \in 1..N : Before(j, i)})
       IN  <<CHOOSE i \in 1..N : Rank(i) = r>> \o SortFrom(scores, r + 1)

\* a descending sort that puts positions with equal scores in reverse order
RECURSIVE SortTiesReversedFrom(_, _)
SortTiesReversedFrom(scores, r) ==
  IF r > Len(scores) THEN <<>>
  ELSE LET N == Len(scores)
           Before(j, i) == scores[j] > scores[i] \/ (scores[j] = scores[i] /\ j > i)
           Rank(i) == 1 + Cardinality({j \in 1..N : Before(j, i)})
       IN  <<CHOOSE i \in 1..N : Rank(i) = r>> \o SortTiesReversedFrom(scores, r + 1)

SortDescendingTiesReversed(scores) == SortTiesReversedFrom(scores, 1)

SortDescending(scores) == SortFrom(scores, 1)

\* the list [lst[i] for i in idxs]
RECURSIVE Pick(_, _)
Pick(lst, idxs) ==
  IF idxs = <<>> THEN <<>> ELSE <<lst[Head(idxs)]>> \o Pick(lst, Tail(idxs))

\* list(range(a, b + 1))
RECURSIVE Range(_, _)
Range(a, b) == IF a > b THEN <<>> ELSE <<a>> \o Range(a + 1, b)

\* the last element of lst whose key is maximal
RECURSIVE ArgMaxLast(_, _, _, _)
ArgMaxLast(lst, keys, i, best) ==
  IF i > Len(lst) THEN lst[best]
  ELSE IF keys[i] >= keys[best] THEN ArgMaxLast(lst, keys, i + 1, i)
  ELSE ArgMaxLast(lst, keys, i + 1, best)

\* the first element of lst whose key is maximal: max(lst, key), keys[i]
\* being the key of lst[i]
RECURSIVE ArgMaxFirst(_, _, _, _)
ArgMaxFirst(lst, keys, i, best) ==
  IF i > Len(lst) THEN lst[best]
  ELSE IF keys[i] > keys[best] THEN ArgMaxFirst(lst, keys, i + 1, i)
  ELSE ArgMaxFirst(lst, keys, i + 1, best)

\* list.remove(x) for an x that occurs once
Remove(lst, x) == SelectSeq(lst, LAMBDA e : e # x)

\* the relevance scores of documents, in order
RECURSIVE RelevanceScores(_, _)
RelevanceScores(query, documents) ==
  IF documents = <<>> THEN <<>>
  ELSE <<calculate_relevance_score(query, Head(documents))>>
         \o RelevanceScores(query, Tail(documents))

\* positions of documents in the order of rerank_by_relevance, before the cut
RelevanceOrder(query, documents) ==
  SortDescending(RelevanceScores(query, documents))

\* rerank_by_relevance with the cut one short: scored_docs[:top_k - 1]
RelevanceCutOneShort(query, documents, top_k) ==
  IF documents = <<>> THEN <<>>
  ELSE LET order == RelevanceOrder(query, documents)
           scored_docs == IF top_k # NoneV THEN PySlice(order, top_k[1] - 1) ELSE order
       IN  Pick(documents, scored_docs)

rerank_by_relevance(query, documents, top_k) ==
  IF documents = <<>> THEN <<>>
  ELSE LET order == RelevanceOrder(query, documents)
           scored_docs == IF top_k # NoneV THEN PySlice(order, top_k[1]) ELSE order
       IN  Pick(documents, scored_docs)

\* max_similarity of documents[idx] to the documents already selected,
\* in units of 10^-7
RECURSIVE MaxSimilarity(_, _, _)
MaxSimilarity(documents, selected, idx) ==
  IF selected = <<>> THEN 0
  ELSE Max(calculate_document_similarity(documents[idx], documents[Head(selected)]),
           MaxSimilarity(documents, Tail(selected), idx))

\* MMR scores that add the similarity to the selected documents
RECURSIVE MMRScoresAddSimilarity(_, _, _, _, _)
MMRScoresAddSimilarity(documents, relevance_scores, selected, remaining, lambda10) ==
  IF remaining = <<>> THEN <<>>
  ELSE <<lambda10 * relevance_scores[Head(remaining)]
           + (10 - lambda10) * MaxSimilarity(documents, selected, Head(remaining))>>
         \o MMRScoresAddSimilarity(documents, relevance_scores, selected,
                                   Tail(remaining), lambda10)

\* the MMR scores of the remaining positions, in units of 10^-8; lambda10 is
\* diversity_threshold in tenths
RECURSIVE MMRScores(_, _, _, _, _)
MMRScores(documents, relevance_scores, selected, remaining, lambda10) ==
  IF remaining = <<>> THEN <<>>
  ELSE <<lambda10 * relevance_scores[Head(remaining)]
           - (10 - lambda10) * MaxSimilarity(documents, selected, Head(remaining))>>
         \o MMRScores(documents, relevance_scores, selected, Tail(remaining), lambda10)

\* the while loop of rerank_by_diversity
RECURSIVE MMRLoop(_, _, _, _, _, _)
MMRLoop(documents, relevance_scores, selected, remaining, top_k, lambda10) ==
  IF remaining # <<>> /\ (top_k = NoneV \/ Len(selected) < top_k[1])
    THEN LET mmr == MMRScores(documents, relevance_scores, selected,
                              remaining, lambda10)
             best_idx == ArgMaxFirst(remaining, mmr, 2, 1)
         IN  MMRLoop(documents, relevance_scores, Append(selected, best_idx),
                     Remove(remaining, best_idx), top_k, lambda10)
    ELSE selected

\* the positions rerank_by_diversity selects among two or more documents
DiversityOrder(query, documents, top_k, lambda10) ==
  LET relevance_scores == RelevanceScores(query, documents)
      remaining == Range(1, Len(documents))
      first_idx == ArgMaxFirst(remaining, relevance_scores, 2, 1)
  IN  MMRLoop(documents, relevance_scores, <<first_idx>>,
              Remove(remaining, first_idx), top_k, lambda10)

rerank_by_diversity(query, documents, top_k, lambda10) ==
  IF documents = <<>> THEN <<>>
  ELSE IF Len(documents) <= 1 THEN documents
  ELSE Pick(documents, DiversityOrder(query, documents, top_k, lambda10))

\* the default arguments of rerank_by_diversity and rerank_hybrid, in tenths
DefaultDiversityThreshold == 7

DefaultRelevanceWeight == 7

DefaultDiversityWeight == 3

\* the index i of enumerate at which the ranking order holds the document at
\* position p of documents.  The candidates of a list are distinct objects
\* (two of them may be equal), so a position stands for id(doc).
PositionIn(order, p) == (CHOOSE r \in 1..Len(order) : order[r] = p) - 1

\* positions of documents in the order of rerank_by_diversity(query, documents)
DiversityFullOrder(query, documents) ==
  IF Len(documents) <= 1 THEN Range(1, Len(documents))
  ELSE DiversityOrder(query, documents, NoneV, DefaultDiversityThreshold)

\* doc_scores of rerank_hybrid for the positions p.. of documents.  Weights
\* are in tenths and not negative; a score is the float of the code times
\* 10 * len(documents) * total_weight (times 10 * len(documents) when
\* total_weight is 0 and the weights stay as they are), which keeps order
\* and ties for the weights and the lengths used here.
RECURSIVE HybridScores(_, _, _, _, _, _)
HybridScores(N, rel_order, div_order, rel_weight, div_weight, p) ==
  IF p > N THEN <<>>
  ELSE <<rel_weight * (Len(rel_order) - PositionIn(rel_order, p))
         + div_weight * (Len(div_order) - PositionIn(div_order, p))>>
       \o HybridScores(N, rel_order, div_order, rel_weight, div_weight, p + 1)

rerank_hybrid(query, documents, top_k, relevance_weight, diversity_weight) ==
  IF documents = <<>> THEN <<>>
  ELSE LET doc_scores == HybridScores(Len(documents),
                                      RelevanceOrder(query, documents),
                                      DiversityFullOrder(query, documents),
                                      relevance_weight, diversity_weight, 1)
           sorted_docs == Pick(documents, SortDescending(doc_scores))
       IN  IF top_k # NoneV /\ top_k[1] # 0 THEN PySlice(sorted_docs, top_k[1])
           ELSE sorted_docs

\* an argument of the wrong type that is truthy: a non-empty str where an
\* int or a float is expected
IllTyped == <<0, 0>>

\* whether rerank raises: with an ill-typed top_k the slice [:top_k] of
\* rerank_by_relevance and rerank_hybrid and the test len(selected) < top_k of
\* rerank_by_diversity raise TypeError, and so does documents[:top_k] in
\* the except branch that catches it
rerank_raises(documents, strategy, top_k) ==
  /\ top_k = IllTyped
  /\ documents # <<>>
  /\ strategy = "diversity" => Len(documents) > 1

\* rerank that takes an unknown strategy name for "hybrid"
RerankUnknownAsHybrid(query, documents, strategy, top_k) ==
  IF strategy = "relevance" THEN rerank_by_relevance(query, documents, top_k)
  ELSE IF strategy = "diversity"
    THEN rerank_by_diversity(query, documents, top_k, DefaultDiversityThreshold)
  ELSE rerank_hybrid(query, documents, top_k,
                     DefaultRelevanceWeight, DefaultDiversityWeight)

\* rerank when it does not raise
rerank(query, documents, strategy, top_k) ==
  IF strategy = "relevance" THEN rerank_by_relevance(query, documents, top_k)
  ELSE IF strategy = "diversity"
    THEN rerank_by_diversity(query, documents, top_k, DefaultDiversityThreshold)
  ELSE IF strategy = "hybrid"
    THEN rerank_hybrid(query, documents, top_k,
                       DefaultRelevanceWeight, DefaultDiversityWeight)
  ELSE rerank_by_relevance(query, documents, top_k)

(***************************************************************************)
(* Configuration: a dict, modelled as a function on the keys it holds.     *)
(* The values of final_k, score_threshold, rerank_top_k and                *)
(* max_docs_before_rerank are NoneV, Some(number) or IllTyped.             *)
(***************************************************************************)

\* dict.get(key, default)
Get(config, key, default) ==
  IF key \in DOMAIN config THEN config[key] ELSE default

\* {**base, **overrides}
Merge(base, overrides) ==
  [key \in (DOMAIN base) \cup (DOMAIN overrides) |->
     IF key \in DOMAIN overrides THEN overrides[key] ELSE base[key]]

\* the empty dict
EmptyDict == [key \in {} |-> 0]

\* self.config after an invoke that merged the overrides into self.config
StoredConfigMerged(base, overrides) == Merge(base, overrides)

\* self.config after runtime_config = {**self.config, **kwargs}: the merge
\* builds a new dict
StoredConfig(base, overrides) == base

\* the outcome of a call: a returned value or a raised exception
Returned(v) == [raised |-> FALSE, value |-> v]

Raised == [raised |-> TRUE, value |-> <<>>]

(***************************************************************************)
(* DocumentReranker: what a call returns, or that it raises                *)
(***************************************************************************)

\* the except branch of the three strategies:
\* return documents[:top_k] if top_k else documents
strategy_fallback(documents, top_k) ==
  IF top_k = IllTyped THEN Raised
  ELSE IF top_k # NoneV /\ top_k[1] # 0 THEN Returned(PySlice(documents, top_k[1]))
  ELSE Returned(documents)

\* rerank_by_diversity as an outcome: what it returns, or that it raises
rerank_by_diversity_outcome(query, documents, top_k, lambda10) ==
  IF rerank_raises(documents, "diversity", top_k)
    THEN strategy_fallback(documents, top_k)
    ELSE Returned(rerank_by_diversity(query, documents, top_k, lambda10))

\* rerank_hybrid as an outcome: what it returns, or that it raises
rerank_hybrid_outcome(query, documents, top_k, relevance_weight, diversity_weight) ==
  IF rerank_raises(documents, "hybrid", top_k)
    THEN strategy_fallback(documents, top_k)
    ELSE Returned(rerank_hybrid(query, documents, top_k,
                                relevance_weight, diversity_weight))

\* rerank(query, documents, strategy, top_k, **kwargs) as an outcome.
\* kwargs go to rerank_by_diversity and rerank_hybrid only: a keyword that
\* rerank_by_diversity does not take raises TypeError at the call, and an
\* ill-typed relevance_weight raises it in the try block of rerank_hybrid
rerank_outcome(query, documents, strategy, top_k, kwargs) ==
  IF strategy = "diversity" /\ ~(DOMAIN kwargs \subseteq {"diversity_threshold"})
    THEN Raised
  ELSE IF /\ strategy = "hybrid"
          /\ documents # <<>>
          /\ Get(kwargs, "relevance_weight", NoneV) = IllTyped
    THEN strategy_fallback(documents, top_k)
  ELSE IF rerank_raises(documents, strategy, top_k)
    THEN strategy_fallback(documents, top_k)
  ELSE Returned(rerank(query, documents, strategy, top_k))

(***************************************************************************)
(* The Vector Index behind VectorDBRetriever: a fixed corpus, ranked by    *)
(* the number of words a document shares with the query.                   *)
(***************************************************************************)

\* how many documents of CorpusPool the index holds
NumDocs == 4

CorpusPool ==
  <<Document(<<"a", " ", "b">>, 1),
    Document(<<"b", " ", "c">>, 2),
    Document(<<"a", " ", "b", " ">>, 3),
    Document(<<"a">>, 4),
    Document(<<"a", " ", "b">>, 5),
    Document(<<"c", " ", "a", " ", "b">>, 6)>>

Corpus == SubSeq(CorpusPool, 1, Min(NumDocs, Len(CorpusPool)))

\* the backend similarity score of a document
BackendScore(query, document) ==
  Cardinality(ToSet(Split(Lower(query)))
                \cap ToSet(Split(Lower(document.page_content))))

RECURSIVE BackendScores(_, _)
BackendScores(query, documents) ==
  IF documents = <<>> THEN <<>>
  ELSE <<BackendScore(query, Head(documents))>>
         \o BackendScores(query, Tail(documents))

\* the corpus in descending order of backend score
Ranked(query) == Pick(Corpus, SortDescending(BackendScores(query, Corpus)))

\* the documents of lst whose content is not that of an earlier one
RECURSIVE DistinctContent(_, _)
DistinctContent(lst, seen) ==
  IF lst = <<>> THEN <<>>
  ELSE IF Head(lst).page_content \in seen THEN DistinctContent(Tail(lst), seen)
  ELSE <<Head(lst)>>
         \o DistinctContent(Tail(lst), seen \cup {Head(lst).page_content})

\* what retriever.invoke(query) returns when the index answers
IndexSearch(query, search_type, search_kwargs) ==
  LET k == search_kwargs["k"]
      ranked == Ranked(query)
  IN  IF search_type = "mmr"
        THEN PySlice(DistinctContent(PySlice(ranked, search_kwargs["fetch_k"]), {}), k)
      ELSE IF search_type = "similarity_score_threshold"
        THEN PySlice(SelectSeq(ranked,
               LAMBDA d : BackendScore(query, d) >= search_kwargs["score_threshold"]), k)
      ELSE PySlice(ranked, k)

(***************************************************************************)
(* RetrievalPipeline: the stages of invoke                                 *)
(***************************************************************************)

\* the default of config.get('k', 5)
DefaultK == 5

\* the default of config.get('min_content_length', 10)
DefaultMinContentLength == 10

\* the default of config.get('max_docs_before_rerank', 20)
DefaultMaxDocsBeforeRerank == 20

\* the default of config.get('mmr_lambda', 0.5), in tenths
DefaultMmrLambda == 5

preprocess_query(query, config) ==
  IF Get(config, "normalize_query", TRUE) THEN normalize_query(query) ELSE query

\* _transform_query that moves the original query behind its expansions
TransformQueryOriginalLast(query, config) ==
  IF Get(config, "use_query_expansion", FALSE)
    THEN LET expanded_queries == expand_query(query)
         IN  IF expanded_queries = <<>> THEN <<>>
             ELSE Tail(expanded_queries) \o <<Head(expanded_queries)>>
  ELSE <<query>>

transform_query(query, config) ==
  IF Get(config, "use_query_expansion", FALSE) THEN expand_query(query)
  ELSE <<query>>

\* search_type as _retrieve_documents resolves it
SearchType(config) ==
  IF Get(config, "use_mmr", FALSE) THEN "mmr"
  ELSE IF Get(config, "score_threshold", NoneV) # NoneV
    THEN "similarity_score_threshold"
  ELSE "similarity"

\* search_kwargs built without reading 'mmr_lambda'
SearchKwargsDefaultLambda(config) ==
  LET k == Get(config, "k", DefaultK)
  IN  IF Get(config, "use_mmr", FALSE)
        THEN [x \in {"k", "fetch_k", "lambda_mult"} |->
                CASE x = "k" -> k
                  [] x = "fetch_k" -> Get(config, "mmr_fetch_k", k * 2)
                  [] x = "lambda_mult" -> DefaultMmrLambda]
      ELSE IF Get(config, "score_threshold", NoneV) # NoneV
        THEN [x \in {"k", "score_threshold"} |->
                IF x = "k" THEN k ELSE Get(config, "score_threshold", NoneV)[1]]
      ELSE [x \in {"k"} |-> k]

\* search_kwargs as _retrieve_documents builds it
SearchKwargs(config) ==
  LET k == Get(config, "k", DefaultK)
  IN  IF Get(config, "use_mmr", FALSE)
        THEN [x \in {"k", "fetch_k", "lambda_mult"} |->
                CASE x = "k" -> k
                  [] x = "fetch_k" -> Get(config, "mmr_fetch_k", k * 2)
                  [] x = "lambda_mult" -> Get(config, "mmr_lambda", DefaultMmrLambda)]
      ELSE IF Get(config, "score_threshold", NoneV) # NoneV
        THEN [x \in {"k", "score_threshold"} |->
                IF x = "k" THEN k ELSE Get(config, "score_threshold", NoneV)[1]]
      ELSE [x \in {"k"} |-> k]

\* the bits of hash() that TLC's integers can hold
HashModulus == 16777216

\* ord() of the characters that document contents are made of
CharCode(c) ==
  CASE c = " " -> 32 [] c = "\t" -> 9 [] c = "\n" -> 10
    [] c = "a" -> 97 [] c = "b" -> 98 [] c = "c" -> 99 [] c = "d" -> 100
    [] OTHER -> 63

\* hash(str): a polynomial hash stands for the keyed hash of the interpreter
RECURSIVE HashFrom(_, _, _)
HashFrom(s, i, h) ==
  IF i > Len(s) THEN h
  ELSE HashFrom(s, i + 1, (h * 31 + CharCode(s[i])) % HashModulus)

Hash(s) == HashFrom(s, 1, 7)

\* content_hash without the strip()
ContentHashUnstripped(doc) == Hash(doc.page_content)

\* content_hash of _deduplicate_documents
ContentHash(doc) == Hash(Strip(doc.page_content))

\* a deduplication in which the last occurrence of a content wins
RECURSIVE DeduplicateKeepLast(_, _)
DeduplicateKeepLast(documents, seen_content) ==
  IF documents = <<>> THEN <<>>
  ELSE IF \E i \in 2..Len(documents) :
            ContentHash(documents[i]) = ContentHash(Head(documents))
    THEN DeduplicateKeepLast(Tail(documents), seen_content)
    ELSE <<Head(documents)>> \o DeduplicateKeepLast(Tail(documents), seen_content)

\* the loop of _deduplicate_documents
RECURSIVE DeduplicateFrom(_, _)
DeduplicateFrom(documents, seen_content) ==
  IF documents = <<>> THEN <<>>
  ELSE IF ContentHash(Head(documents)) \notin seen_content
    THEN <<Head(documents)>>
           \o DeduplicateFrom(Tail(documents),
                              seen_content \cup {ContentHash(Head(documents))})
    ELSE DeduplicateFrom(Tail(documents), seen_content)

deduplicate_documents(documents) == DeduplicateFrom(documents, {})

\* _filter_documents that measures the content without strip()
FilterUntrimmedLength(documents, config) ==
  LET min_content_length == Get(config, "min_content_length", DefaultMinContentLength)
      filtered ==
        IF min_content_length > 0
          THEN SelectSeq(documents,
                 LAMBDA doc : Len(doc.page_content) >= min_content_length)
          ELSE documents
      max_docs_before_rerank ==
        Get(config, "max_docs_before_rerank", Some(DefaultMaxDocsBeforeRerank))
  IN  IF max_docs_before_rerank = NoneV THEN Raised
      ELSE IF Len(filtered) > max_docs_before_rerank[1]
        THEN Returned(PySlice(filtered, max_docs_before_rerank[1]))
      ELSE Returned(filtered)

\* _filter_documents; len(filtered) > None raises TypeError
filter_documents(documents, config) ==
  LET min_content_length == Get(config, "min_content_length", DefaultMinContentLength)
      filtered ==
        IF min_content_length > 0
          THEN SelectSeq(documents,
                 LAMBDA doc : Len(Strip(doc.page_content)) >= min_content_length)
          ELSE documents
      max_docs_before_rerank ==
        Get(config, "max_docs_before_rerank", Some(DefaultMaxDocsBeforeRerank))
  IN  IF max_docs_before_rerank = NoneV THEN Raised
      ELSE IF Len(filtered) > max_docs_before_rerank[1]
        THEN Returned(PySlice(filtered, max_docs_before_rerank[1]))
      ELSE Returned(filtered)

postprocess_documents(documents, config) ==
  IF documents = <<>> THEN Returned(<<>>)
  ELSE filter_documents(deduplicate_documents(documents), config)

\* _rerank_documents; its except branch returns documents
rerank_documents(query, documents, config) ==
  LET rerank_strategy == Get(config, "rerank_strategy", "relevance")
      rerank_top_k == Get(config, "rerank_top_k", Some(Len(documents)))
  IN  IF ~Get(config, "use_reranking", FALSE) \/ documents = <<>> THEN documents
      ELSE IF rerank_raises(documents, rerank_strategy, rerank_top_k) THEN documents
      ELSE rerank(query, documents, rerank_strategy, rerank_top_k)

\* final_k of _finalize_results: config.get('final_k') or config.get('k', 5)
FinalK(config) ==
  LET final_k == Get(config, "final_k", NoneV)
  IN  IF final_k # NoneV /\ final_k[1] # 0 THEN final_k[1]
      ELSE Get(config, "k", DefaultK)

\* a finalize that does not cut
FinalizeUncut(documents, config) == documents

finalize_results(documents, config) ==
  IF Len(documents) > FinalK(config) THEN PySlice(documents, FinalK(config))
  ELSE documents

\* steps 4 to 6 of invoke, on the documents that step 3 collected
ProcessDocuments(all_documents, normalized_query, config) ==
  LET processed == postprocess_documents(all_documents, config)
  IN  IF processed.raised THEN Raised
      ELSE LET final_documents ==
                 rerank_documents(normalized_query, processed.value, config)
           IN  Returned([final_documents |-> final_documents,
                         result |-> finalize_results(final_documents, config)])

\* a store of the reranked list instead of the finalized one
CachedFinalDocuments(final_documents, result) == final_documents

\* the value that invoke stores in the cache: self._cache[query] = result
CachedValue(final_documents, result) == result

\* a fallback k that ignores the call's override
FallbackKIgnoringOverride(config, kwargs) == Get(config, "k", DefaultK)

\* the k that the except branch of invoke passes to _fallback_retrieve
FallbackK(config, kwargs) == Get(kwargs, "k", Get(config, "k", DefaultK))

\* a _fallback_retrieve without its try/except
FallbackRetrieveUncaught(answered, documents) ==
  IF answered THEN Returned(documents) ELSE Raised

\* _fallback_retrieve, given whether the index answered and with what
fallback_retrieve(answered, documents) ==
  IF answered THEN Returned(documents) ELSE Returned(<<>>)

\* a cache test on the normalized query
CacheHitNormalized(enable_cache, cache_keys, query) ==
  enable_cache /\ normalize_query(query) \in cache_keys

\* the cache test of invoke
CacheHit(enable_cache, cache_keys, query) ==
  enable_cache /\ query \in cache_keys

(***************************************************************************)
(* The state machine: callers of one RetrievalPipeline                     *)
(***************************************************************************)

\* the largest k of a configuration
MaxK == 2

\* how many queries of QueryPool the callers ask
NumQueries == 2

QueryPool ==
  <<<<" ", "a", " ", " ", "b">>,
    <<"u9519", "u8BEF", " ", "u8C03", "u8BD5", " ", "u65E5", "u5FD7", " ",
      "u5F02", "u5E38", " ", "b">>,
    <<"a", " ", "b">>,
    <<"c">>>>

Queries == {QueryPool[i] : i \in 1..Min(NumQueries, Len(QueryPool))}

\* the configurations a Pipeline is constructed with
PlainConfig(k) == [k |-> k, enable_cache |-> TRUE, min_content_length |-> 1]

TunedConfig(k) ==
  [k |-> k, final_k |-> Some(1), use_mmr |-> TRUE, mmr_fetch_k |-> k + 1,
   use_query_expansion |-> TRUE, use_reranking |-> TRUE,
   rerank_strategy |-> "diversity", enable_cache |-> TRUE,
   min_content_length |-> 2]

ThresholdConfig(k) ==
  [k |-> k, score_threshold |-> Some(1), use_reranking |-> TRUE,
   rerank_strategy |-> "hybrid", min_content_length |-> 1]

UnlimitedConfig(k) ==
  [k |-> k, enable_cache |-> TRUE, max_docs_before_rerank |-> NoneV,
   min_content_length |-> 1]

\* mmr_lambda = -0.5
SkewedConfig(k) ==
  [k |-> k, use_mmr |-> TRUE, mmr_lambda |-> 0 - 5, enable_cache |-> TRUE,
   min_content_length |-> 1]

Configs ==
  UNION {{PlainConfig(k), TunedConfig(k), ThresholdConfig(k), UnlimitedConfig(k),
          SkewedConfig(k)} : k \in 1..MaxK}

\* the keyword arguments of an invoke call
NoKwargs == EmptyDict

KwargsSet ==
  {NoKwargs,
   [final_k |-> Some(1)],
   [final_k |-> Some(0)],
   [use_mmr |-> TRUE],
   [max_docs_before_rerank |-> NoneV],
   [use_reranking |-> TRUE, rerank_top_k |-> IllTyped],
   [use_mmr |-> TRUE, mmr_lambda |-> 15],
   [enable_cache |-> FALSE],
   [enable_cache |-> TRUE],
   [k |-> 1, max_docs_before_rerank |-> NoneV]}

Threads == {"t1", "t2"}

MainThread == "t1"

VARIABLES
  config,            \* self.config
  enable_cache,      \* self._enable_cache
  cache,             \* self._cache
  index_mode,        \* how the Vector Index fails
  pc,                \* where each caller is in invoke
  query,             \* invoke's argument query
  kwargs,            \* invoke's argument **kwargs
  runtime_config,    \* invoke's local runtime_config
  normalized_query,  \* invoke's local normalized_query
  queries,           \* invoke's local queries
  variant,           \* position of _retrieve_documents in queries
  attempt,           \* which retrieval attempt of the variant comes next
  all_documents,     \* all_documents of _retrieve_documents
  result,            \* what invoke returns
  path,              \* the return statement invoke left through
  calls,             \* the Vector Index calls of the current invoke
  stages,            \* the stages the current invoke has run
  cache_at_entry,    \* self._cache when the current invoke was entered
  first_answer,      \* per query, the first list a caller got back
  overridden,        \* whether a returned invoke was given overrides
  fn_args,           \* the arguments of a function applied on its own
  fn_value           \* NoneV, or Some(what the function returned)

vars ==
  <<config, enable_cache, cache, index_mode, pc, query, kwargs,
    runtime_config, normalized_query, queries, variant, attempt,
    all_documents, result, path, calls, stages, cache_at_entry, first_answer,
    overridden,
    fn_args, fn_value>>

\* the function applied on its own
fn_vars == <<fn_args, fn_value>>

\* the locals of an invoke that is not running
locals ==
  <<query, kwargs, runtime_config, normalized_query, queries, variant,
    attempt, all_documents, result, path, calls, stages, cache_at_entry>>

IndexModes == {"flaky", "up", "similarity_only", "down"}

\* whether the index may answer (TRUE) or raise (FALSE) a call
IndexOutcomes(mode, search_type) ==
  CASE mode = "flaky" -> BOOLEAN
    [] mode = "up" -> {TRUE}
    [] mode = "down" -> {FALSE}
    [] mode = "similarity_only" -> {search_type = "similarity"}

\* dict with d[key] = value
DictSet(d, key, value) ==
  [x \in (DOMAIN d) \cup {key} |-> IF x = key THEN value ELSE d[x]]

InitPipeline(mode) ==
  /\ config \in Configs
  /\ enable_cache = Get(config, "enable_cache", FALSE)
  /\ cache = EmptyDict
  /\ index_mode = mode
  /\ pc = [t \in Threads |-> "idle"]
  /\ query = [t \in Threads |-> <<>>]
  /\ kwargs = [t \in Threads |-> NoKwargs]
  /\ runtime_config = [t \in Threads |-> EmptyDict]
  /\ normalized_query = [t \in Threads |-> <<>>]
  /\ queries = [t \in Threads |-> <<>>]
  /\ variant = [t \in Threads |-> 0]
  /\ attempt = [t \in Threads |-> "none"]
  /\ all_documents = [t \in Threads |-> <<>>]
  /\ result = [t \in Threads |-> <<>>]
  /\ path = [t \in Threads |-> "none"]
  /\ calls = [t \in Threads |-> <<>>]
  /\ stages = [t \in Threads |-> {}]
  /\ cache_at_entry = [t \in Threads |-> EmptyDict]
  /\ first_answer = EmptyDict
  /\ overridden = FALSE

Init ==
  /\ InitPipeline("flaky")
  /\ fn_args = <<>>
  /\ fn_value = NoneV

\* invoke up to the cache test and, on a miss, steps 1 and 2
Invoke(t, q, kw) ==
  /\ pc[t] = "idle"
  /\ UNCHANGED fn_vars
  /\ query' = [query EXCEPT ![t] = q]
  /\ kwargs' = [kwargs EXCEPT ![t] = kw]
  /\ runtime_config' = [runtime_config EXCEPT ![t] = Merge(config, kw)]
  /\ cache_at_entry' = [cache_at_entry EXCEPT ![t] = cache]
  /\ IF CacheHit(enable_cache, DOMAIN cache, q)
       THEN /\ pc' = [pc EXCEPT ![t] = "hit"]
            /\ UNCHANGED <<normalized_query, queries, variant, attempt, stages>>
       ELSE LET normalized == preprocess_query(q, Merge(config, kw))
                transformed == transform_query(normalized, Merge(config, kw))
            IN  /\ normalized_query' = [normalized_query EXCEPT ![t] = normalized]
                /\ queries' = [queries EXCEPT ![t] = transformed]
                /\ variant' = [variant EXCEPT ![t] = 1]
                /\ attempt' = [attempt EXCEPT ![t] = "primary"]
                /\ stages' = [stages EXCEPT ![t] = {"normalize", "expand"}]
                /\ pc' = [pc EXCEPT ![t] =
                            IF transformed = <<>> THEN "process" ELSE "retrieve"]
  /\ config' = StoredConfig(config, kw)
  /\ UNCHANGED <<enable_cache, cache, index_mode, all_documents,
                 result, path, calls, first_answer, overridden>>

\* return self._cache[query]; a missing key raises KeyError
CacheRead(t) ==
  /\ pc[t] = "hit"
  /\ UNCHANGED fn_vars
  /\ IF query[t] \in DOMAIN cache
       THEN /\ result' = [result EXCEPT ![t] = cache[query[t]]]
            /\ path' = [path EXCEPT ![t] = "cache"]
            /\ pc' = [pc EXCEPT ![t] = "done"]
       ELSE /\ pc' = [pc EXCEPT ![t] = "fallback"]
            /\ UNCHANGED <<result, path>>
  /\ UNCHANGED <<config, enable_cache, cache, index_mode, query, kwargs,
                 runtime_config, normalized_query, queries, variant, attempt,
                 all_documents, calls, stages, cache_at_entry, first_answer,
                 overridden>>

\* what follows a raised index call: the retry inside
\* VectorDBRetriever.retrieve, the retry of _retrieve_documents, or the
\* next variant
NextAttempt(current, search_type) ==
  IF current = "primary" /\ search_type # "similarity" THEN "retriever_retry"
  ELSE IF current \in {"primary", "retriever_retry"} THEN "pipeline_retry"
  ELSE "skip"

\* one Vector Index call of _retrieve_documents for the current variant
IndexCall(t, answered) ==
  /\ pc[t] = "retrieve"
  /\ UNCHANGED fn_vars
  /\ LET cfg == runtime_config[t]
         k == Get(cfg, "k", DefaultK)
         q == queries[t][variant[t]]
         search_type == IF attempt[t] = "primary" THEN SearchType(cfg)
                        ELSE "similarity"
         search_kwargs == IF attempt[t] = "primary" THEN SearchKwargs(cfg)
                          ELSE [k |-> k]
         next == IF answered THEN "skip" ELSE NextAttempt(attempt[t], search_type)
         last == next = "skip" /\ variant[t] = Len(queries[t])
     IN  /\ answered \in IndexOutcomes(index_mode, search_type)
         /\ calls' = [calls EXCEPT ![t] =
              Append(@, [variant |-> variant[t], query |-> q,
                         attempt |-> attempt[t], search_type |-> search_type,
                         search_kwargs |-> search_kwargs, answered |-> answered])]
         /\ all_documents' = [all_documents EXCEPT ![t] =
              IF answered THEN @ \o IndexSearch(q, search_type, search_kwargs)
              ELSE @]
         /\ variant' = [variant EXCEPT ![t] = IF next = "skip" THEN @ + 1 ELSE @]
         /\ attempt' = [attempt EXCEPT ![t] =
              IF next = "skip" THEN "primary" ELSE next]
         /\ pc' = [pc EXCEPT ![t] = IF last THEN "process" ELSE "retrieve"]
  /\ stages' = [stages EXCEPT ![t] = @ \cup {"retrieve"}]
  /\ UNCHANGED <<config, enable_cache, cache, index_mode, query, kwargs,
                 runtime_config, normalized_query, queries, result, path,
                 cache_at_entry, first_answer,
                 overridden>>

\* what invoke does with the outcome of steps 4 to 6: the except branch, or
\* the cache store and the return
AfterProcess(t, outcome) ==
  IF outcome.raised
    THEN /\ pc' = [pc EXCEPT ![t] = "fallback"]
         /\ stages' = [stages EXCEPT ![t] = @ \cup {"postprocess"}]
         /\ UNCHANGED <<cache, result, path>>
    ELSE /\ result' = [result EXCEPT ![t] = outcome.value.result]
         /\ cache' = IF enable_cache
                       THEN DictSet(cache, query[t],
                              CachedValue(outcome.value.final_documents,
                                          outcome.value.result))
                       ELSE cache
         /\ stages' = [stages EXCEPT ![t] =
                         @ \cup {"postprocess", "rerank", "finalize"}]
         /\ path' = [path EXCEPT ![t] = "finalize"]
         /\ pc' = [pc EXCEPT ![t] = "done"]

\* steps 4 to 6 of invoke and the cache store
Process(t) ==
  /\ pc[t] = "process"
  /\ UNCHANGED fn_vars
  /\ AfterProcess(t, ProcessDocuments(all_documents[t], normalized_query[t],
                                      runtime_config[t]))
  /\ UNCHANGED <<config, enable_cache, index_mode, query, kwargs,
                 runtime_config, normalized_query, queries, variant, attempt,
                 all_documents, calls, cache_at_entry, first_answer,
                 overridden>>

\* the except branch of invoke: _fallback_retrieve
Fallback(t, answered) ==
  /\ pc[t] = "fallback"
  /\ UNCHANGED fn_vars
  /\ answered \in IndexOutcomes(index_mode, "similarity")
  /\ LET k == FallbackK(config, kwargs[t])
         outcome == fallback_retrieve(answered,
                      IndexSearch(query[t], "similarity", [k |-> k]))
     IN  /\ calls' = [calls EXCEPT ![t] =
              Append(@, [variant |-> 0, query |-> query[t],
                         attempt |-> "fallback", search_type |-> "similarity",
                         search_kwargs |-> [k |-> k], answered |-> answered])]
         /\ IF outcome.raised
              THEN /\ pc' = [pc EXCEPT ![t] = "raised"]
                   /\ UNCHANGED <<result, path>>
              ELSE /\ result' = [result EXCEPT ![t] = outcome.value]
                   /\ path' = [path EXCEPT ![t] = "fallback"]
                   /\ pc' = [pc EXCEPT ![t] = "done"]
  /\ UNCHANGED <<config, enable_cache, cache, index_mode, query, kwargs,
                 runtime_config, normalized_query, queries, variant, attempt,
                 all_documents, stages, cache_at_entry, first_answer,
                 overridden>>

\* the caller takes the returned list; invoke's locals die
Return(t) ==
  /\ pc[t] = "done"
  /\ UNCHANGED fn_vars
  /\ pc' = [pc EXCEPT ![t] = "idle"]
  /\ first_answer' =
       IF index_mode # "flaky" /\ query[t] \notin DOMAIN first_answer
         THEN DictSet(first_answer, query[t], result[t])
         ELSE first_answer
  /\ overridden' = (overridden \/ kwargs[t] # NoKwargs)
  /\ query' = [query EXCEPT ![t] = <<>>]
  /\ kwargs' = [kwargs EXCEPT ![t] = NoKwargs]
  /\ runtime_config' = [runtime_config EXCEPT ![t] = EmptyDict]
  /\ normalized_query' = [normalized_query EXCEPT ![t] = <<>>]
  /\ queries' = [queries EXCEPT ![t] = <<>>]
  /\ variant' = [variant EXCEPT ![t] = 0]
  /\ attempt' = [attempt EXCEPT ![t] = "none"]
  /\ all_documents' = [all_documents EXCEPT ![t] = <<>>]
  /\ result' = [result EXCEPT ![t] = <<>>]
  /\ path' = [path EXCEPT ![t] = "none"]
  /\ calls' = [calls EXCEPT ![t] = <<>>]
  /\ stages' = [stages EXCEPT ![t] = {}]
  /\ cache_at_entry' = [cache_at_entry EXCEPT ![t] = EmptyDict]
  /\ UNCHANGED <<config, enable_cache, cache, index_mode>>

\* clear_cache, called between two invoke calls
ClearCache ==
  /\ pc[MainThread] = "idle"
  /\ UNCHANGED fn_vars
  /\ cache' = EmptyDict
  /\ UNCHANGED <<config, enable_cache, index_mode, pc, first_answer,
                 overridden>>
  /\ UNCHANGED locals

\* one caller, any overrides, an index that may raise at any call
Next ==
  \/ \E q \in Queries, kw \in KwargsSet : Invoke(MainThread, q, kw)
  \/ CacheRead(MainThread)
  \/ \E answered \in BOOLEAN : IndexCall(MainThread, answered)
  \/ Process(MainThread)
  \/ \E answered \in BOOLEAN : Fallback(MainThread, answered)
  \/ Return(MainThread)
  \/ ClearCache

Spec == Init /\ [][Next]_vars

\* one caller, no overrides, an index whose answers and failures are fixed
InitDet ==
  /\ \E mode \in IndexModes \ {"flaky"} : InitPipeline(mode)
  /\ fn_args = <<>>
  /\ fn_value = NoneV

NextDet ==
  \/ \E q \in Queries : Invoke(MainThread, q, NoKwargs)
  \/ CacheRead(MainThread)
  \/ \E answered \in BOOLEAN : IndexCall(MainThread, answered)
  \/ Process(MainThread)
  \/ \E answered \in BOOLEAN : Fallback(MainThread, answered)
  \/ Return(MainThread)
  \/ ClearCache

SpecDet == InitDet /\ [][NextDet]_vars

\* several callers in any interleaving, no overrides, an index whose answers
\* and failures are fixed.  A step is one access to self._cache or to the
\* Vector Index together with the thread-local work around it.
NextConcurrent ==
  \E t \in Threads :
    \/ \E q \in Queries : Invoke(t, q, NoKwargs)
    \/ CacheRead(t)
    \/ \E answered \in BOOLEAN : IndexCall(t, answered)
    \/ Process(t)
    \/ \E answered \in BOOLEAN : Fallback(t, answered)
    \/ Return(t)

SpecConcurrent == InitDet /\ [][NextConcurrent]_vars

\* clear_cache called by another thread at any moment of a running invoke
ClearCacheConcurrent ==
  /\ UNCHANGED fn_vars
  /\ cache' = EmptyDict
  /\ UNCHANGED <<config, enable_cache, index_mode, pc, first_answer,
                 overridden>>
  /\ UNCHANGED locals

\* one caller of invoke, no overrides, an index whose answers and failures
\* are fixed, and a thread that clears the cache.  A step of invoke is one
\* access to self._cache or to the Vector Index together with the
\* thread-local work around it: the membership test `query in self._cache`
\* and the read `self._cache[query]` are two steps.
NextClearRace ==
  \/ \E q \in Queries : Invoke(MainThread, q, NoKwargs)
  \/ CacheRead(MainThread)
  \/ \E answered \in BOOLEAN : IndexCall(MainThread, answered)
  \/ Process(MainThread)
  \/ \E answered \in BOOLEAN : Fallback(MainThread, answered)
  \/ Return(MainThread)
  \/ ClearCacheConcurrent

SpecClearRace == InitDet /\ [][NextClearRace]_vars


(***************************************************************************)
(* _deduplicate_documents applied on its own                               *)
(***************************************************************************)

\* the longest candidate list given to a function applied on its own
MaxCandidates == 3

\* the lists of at most n elements of S
SeqUpTo(S, n) == UNION {[1..m -> S] : m \in 0..n}

InitDedup ==
  /\ InitPipeline("up")
  /\ config = PlainConfig(1)
  /\ fn_args \in SeqUpTo(ToSet(CorpusPool), MaxCandidates)
  /\ fn_value = NoneV

ApplyDeduplicate ==
  /\ fn_value = NoneV
  /\ fn_value' = Some(deduplicate_documents(fn_args))
  /\ UNCHANGED <<config, enable_cache, cache, index_mode, pc, first_answer,
                 overridden, fn_args>>
  /\ UNCHANGED locals

NextDedup == ApplyDeduplicate

SpecDedup == InitDedup /\ [][NextDedup]_vars

(***************************************************************************)
(* _postprocess_documents applied on its own                               *)
(***************************************************************************)

\* the configurations of the filter: the defaults, and every pair of a
\* minimal length and a cap.  The minimal lengths: no filter, one that every
\* content of the pool reaches, one that some reach, and one that only an
\* untrimmed content reaches
FilterConfigs ==
  {EmptyDict}
  \cup {[min_content_length |-> m, max_docs_before_rerank |-> c] :
          m \in {0, 1, 2, 4},
          c \in {NoneV} \cup {Some(n) : n \in 0..MaxCandidates}}

InitPostprocess ==
  /\ InitPipeline("up")
  /\ config = PlainConfig(1)
  /\ fn_args \in [documents : SeqUpTo(ToSet(CorpusPool), MaxCandidates),
                   config : FilterConfigs]
  /\ fn_value = NoneV

ApplyPostprocess ==
  /\ fn_value = NoneV
  /\ fn_value' = Some(postprocess_documents(fn_args.documents, fn_args.config))
  /\ UNCHANGED <<config, enable_cache, cache, index_mode, pc, first_answer,
                 overridden, fn_args>>
  /\ UNCHANGED locals

SpecPostprocess == InitPostprocess /\ [][ApplyPostprocess]_vars

(***************************************************************************)
(* QueryTransformer.transform applied on its own                           *)
(***************************************************************************)

\* the longest query string built from QueryAlphabet
MaxQueryLen == 3

\* whitespace, the letters of the term "AI", a character that normalization
\* removes
QueryAlphabet == {" ", "a", "i", "@"}

QueryStrings == SeqUpTo(QueryAlphabet, MaxQueryLen) \cup ToSet(QueryPool)

InitTransform ==
  /\ InitPipeline("up")
  /\ config = PlainConfig(1)
  /\ fn_args \in QueryStrings
  /\ fn_value = NoneV

ApplyTransform ==
  /\ fn_value = NoneV
  /\ fn_value' = Some(transform(fn_args, TRUE, TRUE))
  /\ UNCHANGED <<config, enable_cache, cache, index_mode, pc, first_answer,
                 overridden, fn_args>>
  /\ UNCHANGED locals

NextTransform == ApplyTransform

SpecTransform == InitTransform /\ [][NextTransform]_vars

(***************************************************************************)
(* QueryTransformer.normalize_query applied on its own                     *)
(***************************************************************************)

ApplyNormalize ==
  /\ fn_value = NoneV
  /\ fn_value' = Some(normalize_query(fn_args))
  /\ UNCHANGED <<config, enable_cache, cache, index_mode, pc, first_answer,
                 overridden, fn_args>>
  /\ UNCHANGED locals

SpecNormalize == InitTransform /\ [][ApplyNormalize]_vars

(***************************************************************************)
(* DocumentReranker._calculate_relevance_score applied on its own          *)
(***************************************************************************)

\* the longest document content built from ContentAlphabet
MaxContentLen == 4

\* the longest query given to the Reranker on its own
MaxScoreQueryLen == 2

ContentAlphabet == {"a", "A", " "}

ContentStrings == SeqUpTo(ContentAlphabet, MaxContentLen)

ScoreQueries == SeqUpTo(ContentAlphabet, MaxScoreQueryLen)

InitScore ==
  /\ InitPipeline("up")
  /\ config = PlainConfig(1)
  /\ fn_args \in [query : ScoreQueries,
                  document : {Document(c, 1) : c \in ContentStrings}]
  /\ fn_value = NoneV

ApplyRelevanceScore ==
  /\ fn_value = NoneV
  /\ fn_value' = Some(calculate_relevance_score(fn_args.query, fn_args.document))
  /\ UNCHANGED <<config, enable_cache, cache, index_mode, pc, first_answer,
                 overridden, fn_args>>
  /\ UNCHANGED locals

NextScore == ApplyRelevanceScore

SpecScore == InitScore /\ [][NextScore]_vars

(***************************************************************************)
(* The methods of DocumentReranker applied on their own                    *)
(***************************************************************************)

\* the longest candidate list given to the Reranker on its own
MaxRerankDocs == 3

\* two candidates with the same words, one sharing a word, one shorter
RerankPool == SubSeq(CorpusPool, 1, 4)

CandidateLists == SeqUpTo(ToSet(RerankPool), MaxRerankDocs)

RerankQueries == {<<"a">>, <<"a", " ", "b">>}

TopKs == {NoneV, IllTyped} \cup {Some(n) : n \in 0..MaxRerankDocs}

\* diversity_threshold, in tenths
Lambdas == {0, 7, 10}

Strategies == {"relevance", "diversity", "hybrid", "foo"}

\* the **kwargs of rerank
RerankKwargs == {EmptyDict, [relevance_weight |-> IllTyped]}

DiversityArgs ==
  [fn : {"rerank_by_diversity"}, query : RerankQueries,
   documents : CandidateLists, top_k : TopKs, lambda10 : Lambdas]

RerankArgs ==
  [fn : {"rerank"}, query : RerankQueries, documents : CandidateLists,
   top_k : TopKs, strategy : Strategies, kwargs : RerankKwargs]

\* relevance_weight and diversity_weight, in tenths
Weights == {0, 3, 7}

HybridArgs ==
  [fn : {"rerank_hybrid"}, query : RerankQueries, documents : CandidateLists,
   top_k : TopKs, relevance_weight : Weights, diversity_weight : Weights]

InitRerank ==
  /\ InitPipeline("up")
  /\ config = PlainConfig(1)
  /\ fn_args \in DiversityArgs \cup RerankArgs \cup HybridArgs
  /\ fn_value = NoneV

ApplyRerankByDiversity ==
  /\ fn_value = NoneV
  /\ fn_args.fn = "rerank_by_diversity"
  /\ fn_value' = Some(rerank_by_diversity_outcome(fn_args.query,
                        fn_args.documents, fn_args.top_k, fn_args.lambda10))
  /\ UNCHANGED <<config, enable_cache, cache, index_mode, pc, first_answer,
                 overridden, fn_args>>
  /\ UNCHANGED locals

ApplyRerank ==
  /\ fn_value = NoneV
  /\ fn_args.fn = "rerank"
  /\ fn_value' = Some(rerank_outcome(fn_args.query, fn_args.documents,
                        fn_args.strategy, fn_args.top_k, fn_args.kwargs))
  /\ UNCHANGED <<config, enable_cache, cache, index_mode, pc, first_answer,
                 overridden, fn_args>>
  /\ UNCHANGED locals

ApplyRerankHybrid ==
  /\ fn_value = NoneV
  /\ fn_args.fn = "rerank_hybrid"
  /\ fn_value' = Some(rerank_hybrid_outcome(fn_args.query, fn_args.documents,
                        fn_args.top_k, fn_args.relevance_weight,
                        fn_args.diversity_weight))
  /\ UNCHANGED <<config, enable_cache, cache, index_mode, pc, first_answer,
                 overridden, fn_args>>
  /\ UNCHANGED locals

NextRerank ==
  \/ ApplyRerankByDiversity
  \/ ApplyRerank
  \/ ApplyRerankHybrid

SpecRerank == InitRerank /\ [][NextRerank]_vars

(***************************************************************************)
(* Properties                                                              *)
(***************************************************************************)

Done(t) == pc[t] = "done"

\* the Vector Index calls that _retrieve_documents made in the current invoke
RetrievalCalls(t) == SelectSeq(calls[t], LAMBDA c : c.attempt # "fallback")

\* the Vector Index calls that _fallback_retrieve made in the current invoke
FallbackCalls(t) == SelectSeq(calls[t], LAMBDA c : c.attempt = "fallback")

TrimmedContent(doc) == Strip(doc.page_content)

NoDuplicateContent(lst) ==
  \A i, j \in 1..Len(lst) :
    i # j => TrimmedContent(lst[i]) # TrimmedContent(lst[j])

\* C1: invoke never lets an exception reach its caller; whatever the index,
\* the overrides and the stages do, it ends by returning a list of documents.
InvokeNeverRaises ==
  \A t \in Threads :
    /\ pc[t] # "raised"
    /\ Done(t) => result[t] \in Seq(ToSet(CorpusPool))

\* C1 witness: the stages raised and the index raised in the fallback too,
\* and invoke returned the empty list.
InvokeNeverRaisesWitness ==
  /\ Done(MainThread)
  /\ path[MainThread] = "fallback"
  /\ Len(RetrievalCalls(MainThread)) >= 1
  /\ ~calls[MainThread][Len(calls[MainThread])].answered
  /\ result[MainThread] = <<>>

\* C2 (as claimed): when every Vector Index call of an invoke on a caching
\* Pipeline raised, the cache holds no entry for the query after the return.
DegradedResultNotCached ==
  \A t \in Threads :
    (/\ Done(t)
     /\ enable_cache
     /\ calls[t] # <<>>
     /\ \A i \in 1..Len(calls[t]) : ~calls[t][i].answered)
    => query[t] \notin DOMAIN cache

\* C3: with a fixed configuration, no overrides and a deterministic index,
\* every invoke(q) returns the list that the first invoke(q) returned,
\* whatever invoke and clear_cache calls came in between.
SameAnswerForSameQuery ==
  \A t \in Threads :
    (Done(t) /\ query[t] \in DOMAIN first_answer)
    => result[t] = first_answer[query[t]]

\* C3 witness: a query answered before is answered from the cache, with a
\* non-empty list.
SameAnswerForSameQueryWitness ==
  /\ Done(MainThread)
  /\ path[MainThread] = "cache"
  /\ query[MainThread] \in DOMAIN first_answer
  /\ result[MainThread] # <<>>

\* C4: when caching is enabled and the raw query is a key of the cache at
\* the call, invoke returns the stored list without any Vector Index call
\* and without running any stage.
CacheHitRunsNoStage ==
  \A t \in Threads :
    (/\ pc[t] # "idle"
     /\ enable_cache
     /\ query[t] \in DOMAIN cache_at_entry[t])
    => /\ pc[t] \in {"hit", "done"}
       /\ calls[t] = <<>>
       /\ stages[t] = {}
       /\ Done(t) => /\ path[t] = "cache"
                     /\ result[t] = cache_at_entry[t][query[t]]

\* C4 witness: a call returned a non-empty list from the cache, under a raw
\* query that normalization would change.
CacheHitRunsNoStageWitness ==
  /\ Done(MainThread)
  /\ path[MainThread] = "cache"
  /\ result[MainThread] # <<>>
  /\ normalize_query(query[MainThread]) # query[MainThread]

\* final_k of the configuration in effect, k when final_k is unset
ConfiguredLimit(cfg) ==
  IF Get(cfg, "final_k", NoneV) # NoneV THEN Get(cfg, "final_k", NoneV)[1]
  ELSE Get(cfg, "k", DefaultK)

\* C5 (as claimed): on every path the returned list has at most final_k
\* elements, or at most k when final_k is unset.
ResultAtMostFinalK ==
  \A t \in Threads :
    Done(t) => Len(result[t]) <= ConfiguredLimit(runtime_config[t])

\* C5 (amended): a list returned through finalize has at most final_k
\* elements when the configuration in effect for the call sets a positive
\* final_k, and at most k when final_k is unset or 0.
FinalizedAtMostFinalK ==
  \A t \in Threads :
    LET cfg == runtime_config[t]
        final_k == Get(cfg, "final_k", NoneV)
        k == Get(cfg, "k", DefaultK)
    IN  (Done(t) /\ path[t] = "finalize")
        => Len(result[t]) <= (IF final_k # NoneV /\ final_k[1] > 0
                                THEN final_k[1] ELSE k)

\* C5 witness: finalize cut two or more reranked documents down to final_k = 1.
FinalizedAtMostFinalKWitness ==
  /\ Done(MainThread)
  /\ path[MainThread] = "finalize"
  /\ Get(runtime_config[MainThread], "final_k", NoneV) = Some(1)
  /\ Len(deduplicate_documents(all_documents[MainThread])) >= 2
  /\ Len(result[MainThread]) = 1

\* C6: an invoke that answers through the global fallback makes exactly one
\* fallback retrieval, a plain-similarity call for the raw query at the
\* call's k, and leaves the cache as it was when the call began.
FallbackOneCallNoCache ==
  \A t \in Threads :
    (Done(t) /\ path[t] = "fallback")
    => /\ cache = cache_at_entry[t]
       /\ Len(FallbackCalls(t)) = 1
       /\ LET c == calls[t][Len(calls[t])]
          IN  /\ c.attempt = "fallback"
              /\ c.search_type = "similarity"
              /\ c.query = query[t]
              /\ c.search_kwargs = [k |-> Get(runtime_config[t], "k", DefaultK)]

\* C6 witness: a caching Pipeline answered a call that overrides k through
\* the fallback, with a non-empty list.
FallbackOneCallNoCacheWitness ==
  /\ Done(MainThread)
  /\ path[MainThread] = "fallback"
  /\ enable_cache
  /\ "k" \in DOMAIN kwargs[MainThread]
  /\ result[MainThread] # <<>>

\* C7 (as claimed): when retrieval failed for every query variant, invoke
\* answers through the global fallback and does not finalize the empty set.
AllVariantsFailedFallsBack ==
  \A t \in Threads :
    (/\ Done(t)
     /\ RetrievalCalls(t) # <<>>
     /\ \A i \in 1..Len(RetrievalCalls(t)) : ~RetrievalCalls(t)[i].answered)
    => path[t] = "fallback"

\* the Vector Index calls made for variant v in the current invoke
VariantCalls(t, v) == SelectSeq(RetrievalCalls(t), LAMBDA c : c.variant = v)

\* C8 (as claimed): for one query variant the index is called at most twice,
\* the second time only after a raised call in a mode other than plain
\* similarity; a raised plain-similarity call is not retried.
AtMostOneRetryPerVariant ==
  \A t \in Threads : \A v \in 1..Len(queries[t]) :
    LET cs == VariantCalls(t, v)
    IN  /\ Len(cs) <= 2
        /\ \A i \in 1..Len(cs) :
             (cs[i].search_type = "similarity" /\ ~cs[i].answered) => i = Len(cs)

\* C9 (as claimed): no returned list holds two documents with the same
\* trimmed content, on any path.
ResultHasNoDuplicates ==
  \A t \in Threads : Done(t) => NoDuplicateContent(result[t])

\* C9 (amended): a list returned through finalize or from the cache holds no
\* two documents with the same trimmed content.
FinalizedHasNoDuplicates ==
  \A t \in Threads :
    (Done(t) /\ path[t] \in {"finalize", "cache"})
    => NoDuplicateContent(result[t])

\* C9 witness: the retrieved candidates repeated a trimmed content and the
\* call returned two or more documents through finalize.
FinalizedHasNoDuplicatesWitness ==
  /\ Done(MainThread)
  /\ path[MainThread] = "finalize"
  /\ ~NoDuplicateContent(all_documents[MainThread])
  /\ Len(result[MainThread]) >= 2

\* the positions of lst that hold the first occurrence of a trimmed content
FirstOccurrences(lst) ==
  {i \in 1..Len(lst) :
     \A j \in 1..(i - 1) : TrimmedContent(lst[j]) # TrimmedContent(lst[i])}

\* C10: deduplication returns exactly the first occurrence of each distinct
\* trimmed content, in input order; the output is not longer than the input
\* and holds no two documents with the same trimmed content.
DedupKeepsFirstOccurrences ==
  fn_value # NoneV =>
    LET input == fn_args
        output == fn_value[1]
        keep == FirstOccurrences(input)
    IN  /\ Len(output) = Cardinality(keep)
        /\ \A r \in 1..Len(output) :
             output[r] = input[CHOOSE i \in keep :
                                 Cardinality({j \in keep : j < i}) = r - 1]
        /\ Len(output) <= Len(input)
        /\ NoDuplicateContent(output)

\* C10 witness: three candidates with one content and three metadata
\* collapse to the first of them.
DedupKeepsFirstOccurrencesWitness ==
  /\ fn_value # NoneV
  /\ Len(fn_args) = 3
  /\ \A i \in 1..3 : fn_args[i].page_content = fn_args[1].page_content
  /\ fn_args[1].metadata # fn_args[2].metadata
  /\ fn_value[1] = <<fn_args[1]>>

\* the list lst holds no element twice
NoDuplicates(lst) ==
  \A i, j \in 1..Len(lst) : lst[i] = lst[j] => i = j

\* C11: for every query string, the empty and the whitespace-only ones
\* included, expansion returns a non-empty sequence whose first element is
\* the normalized query and which holds no element twice.
ExpansionStartsWithNormalizedQuery ==
  fn_value # NoneV
  => /\ fn_value[1] # <<>>
     /\ fn_value[1][1] = normalize_query(fn_args)
     /\ NoDuplicates(fn_value[1])

\* C12: for every query and every candidate content the relevance score
\* lies in [0, 1], that is in 0..10^7 units of 10^-7.
RelevanceScoreInUnitInterval ==
  fn_value # NoneV => (0 <= fn_value[1] /\ fn_value[1] <= 10 * Scale)

\* a content that repeats the query word, so that the word frequency part
\* is cut to 1.0, has been scored
RelevanceScoreInUnitIntervalWitness ==
  /\ fn_value # NoneV
  /\ fn_args.query = <<"a">>
  /\ fn_args.document.page_content = <<"a", " ", "A">>
  /\ fn_value[1] > 9 * Scale

\* rerank_by_diversity has returned a list
DiversityReturned ==
  /\ fn_value # NoneV
  /\ fn_args.fn = "rerank_by_diversity"
  /\ ~fn_value[1].raised

\* position i of documents holds the earliest candidate of maximal
\* relevance score
EarliestMostRelevant(q, documents, i) ==
  /\ \A j \in 1..Len(documents) :
       calculate_relevance_score(q, documents[j])
         <= calculate_relevance_score(q, documents[i])
  /\ \A j \in 1..(i - 1) :
       calculate_relevance_score(q, documents[j])
         < calculate_relevance_score(q, documents[i])

\* C13: diversity reranking of a non-empty candidate list selects first the
\* earliest candidate of maximal relevance score, and for top_k = 1 returns
\* exactly that one candidate, for every lambda.
DiversityFirstIsMostRelevant ==
  (DiversityReturned /\ fn_args.documents # <<>>)
  => \E i \in 1..Len(fn_args.documents) :
       /\ EarliestMostRelevant(fn_args.query, fn_args.documents, i)
       /\ fn_value[1].value # <<>>
       /\ fn_value[1].value[1] = fn_args.documents[i]
       /\ fn_args.top_k = Some(1) => fn_value[1].value = <<fn_args.documents[i]>>

\* top_k = 1, three candidates of which the last two tie on the maximal
\* relevance score, lambda below 1
DiversityFirstIsMostRelevantWitness ==
  /\ DiversityReturned
  /\ fn_args.top_k = Some(1)
  /\ fn_args.lambda10 = 7
  /\ fn_args.query = <<"a", " ", "b">>
  /\ fn_args.documents = <<RerankPool[2], RerankPool[1], RerankPool[3]>>
  /\ fn_value[1].value = <<RerankPool[1]>>

\* C14: with lambda = 1 diversity reranking returns exactly what the
\* Relevance strategy returns for the same query, candidates and top_k,
\* ties on relevance score included.
DiversityAtLambdaOneIsRelevance ==
  (DiversityReturned /\ fn_args.lambda10 = 10 /\ fn_args.top_k # IllTyped)
  => fn_value[1].value
       = rerank_by_relevance(fn_args.query, fn_args.documents, fn_args.top_k)

\* rerank has been called and has returned or raised
RerankCalled == fn_value # NoneV /\ fn_args.fn = "rerank"

\* the try block of the strategy that rerank dispatches to fails
StrategyFails ==
  \/ rerank_raises(fn_args.documents, fn_args.strategy, fn_args.top_k)
  \/ /\ fn_args.strategy = "hybrid"
     /\ fn_args.documents # <<>>
     /\ Get(fn_args.kwargs, "relevance_weight", NoneV) = IllTyped

\* documents cut to top_k when top_k is given, whole when it is None
TruncatedInput(documents, top_k) ==
  IF top_k = NoneV THEN documents
  ELSE IF top_k = IllTyped THEN documents
  ELSE SubSeq(documents, 1, Min(top_k[1], Len(documents)))

\* C15: rerank never raises, and when scoring or selection fails inside a
\* strategy it returns the input candidates in their original order, cut to
\* top_k when top_k is given and whole when it is not.
RerankNeverRaises ==
  RerankCalled
  => /\ ~fn_value[1].raised
     /\ StrategyFails
        => fn_value[1].value = TruncatedInput(fn_args.documents, fn_args.top_k)

\* C16: for a strategy name other than "relevance", "diversity" and
\* "hybrid", rerank does what it does for "relevance" with the same query,
\* candidates and top_k, and with a well-typed top_k it returns the output
\* of the Relevance strategy without raising.
UnknownStrategyIsRelevance ==
  (RerankCalled /\ fn_args.strategy \notin {"relevance", "diversity", "hybrid"})
  => /\ fn_value[1] = rerank_outcome(fn_args.query, fn_args.documents,
                         "relevance", fn_args.top_k, fn_args.kwargs)
     /\ fn_args.top_k # IllTyped
        => /\ ~fn_value[1].raised
           /\ fn_value[1].value = rerank_by_relevance(fn_args.query,
                                     fn_args.documents, fn_args.top_k)

\* strategy "foo", top_k = 2, three candidates that relevance reorders
UnknownStrategyIsRelevanceWitness ==
  /\ RerankCalled
  /\ fn_args.strategy = "foo"
  /\ fn_args.query = <<"a">>
  /\ fn_args.top_k = Some(2)
  /\ fn_args.documents = <<RerankPool[1], RerankPool[2], RerankPool[4]>>
  /\ fn_value[1] = Returned(<<RerankPool[4], RerankPool[1]>>)

\* C17: invoke with overrides leaves the stored base configuration as it
\* was constructed, and a call without overrides runs under the base
\* configuration.
BaseConfigUnchanged ==
  /\ [][config' = config /\ enable_cache' = enable_cache]_vars
  /\ [](\A t \in Threads :
          (pc[t] # "idle" /\ kwargs[t] = NoKwargs) => runtime_config[t] = config)

\* after an invoke with overrides has returned, an invoke without overrides
\* has run every stage
BaseConfigUnchangedWitness ==
  /\ overridden
  /\ Done(MainThread)
  /\ kwargs[MainThread] = NoKwargs
  /\ path[MainThread] = "finalize"
  /\ runtime_config[MainThread] = config

\* C18: enable_cache takes its value for a call from the overrides merged
\* over the base configuration: a call with caching off neither reads nor
\* writes the cache, a call with caching on answers from the cache when the
\* query is stored and stores the list it finalizes.
EnableCacheOverrideHonoured ==
  \A t \in Threads :
    Done(t)
    => LET caching == Get(runtime_config[t], "enable_cache", FALSE)
       IN  /\ ~caching => (path[t] # "cache" /\ cache = cache_at_entry[t])
           /\ (caching /\ query[t] \in DOMAIN cache_at_entry[t])
              => path[t] = "cache"
           /\ (caching /\ path[t] = "finalize") => query[t] \in DOMAIN cache

\* mmr_lambda, in tenths, lies in [0, 1]
LambdaInRange(lambda10) == 0 <= lambda10 /\ lambda10 <= 10

\* C19: a configuration whose mmr_lambda lies outside [0, 1] is rejected
\* when it is resolved: an invoke whose configuration (the base one or the
\* overrides) holds one raises before any stage, and no Vector Index call
\* carries a lambda outside [0, 1].
OutOfRangeLambdaRejected ==
  \A t \in Threads :
    /\ ~LambdaInRange(Get(runtime_config[t], "mmr_lambda", DefaultMmrLambda))
       => pc[t] \in {"idle", "raised"}
    /\ \A i \in 1..Len(calls[t]) :
         "lambda_mult" \in DOMAIN calls[t][i].search_kwargs
         => LambdaInRange(calls[t][i].search_kwargs["lambda_mult"])

\* what holds in every state of concurrent callers: equal queries get equal
\* lists, now and at any earlier return, and a stored list is the list the
\* callers of its query get
ConcurrentAnswersAgree ==
  /\ \A t, u \in Threads :
       (Done(t) /\ Done(u) /\ query[t] = query[u]) => result[t] = result[u]
  /\ \A t \in Threads :
       /\ (Done(t) /\ query[t] \in DOMAIN first_answer)
          => result[t] = first_answer[query[t]]
       /\ (Done(t) /\ query[t] \in DOMAIN cache)
          => cache[query[t]] = result[t]

\* C20: when several threads call invoke concurrently with a stable
\* configuration and a deterministic Vector Index, the calls with the same
\* query return the same list under every interleaving, and the cache entry
\* of a query, once written, holds that list for good: a later writer
\* stores an equal value.
ConcurrentInvokeSameAnswer ==
  /\ []ConcurrentAnswersAgree
  /\ [][\A q \in DOMAIN cache :
           q \in DOMAIN cache' /\ cache'[q] = cache[q]]_vars

\* two callers that both missed the cache for the same query have both
\* finalized and stored a non-empty list
ConcurrentInvokeSameAnswerWitness ==
  /\ \A t \in Threads :
       /\ Done(t)
       /\ path[t] = "finalize"
       /\ result[t] # <<>>
       /\ query[t] \notin DOMAIN cache_at_entry[t]
  /\ query["t1"] = query["t2"]
  /\ enable_cache
  /\ query["t1"] \in DOMAIN cache

\* C21: the output of normalize has no leading or trailing whitespace, no
\* run of two or more whitespace characters and no character outside the
\* whitelist.
NormalizedQueryIsClean ==
  fn_value # NoneV
  => LET out == fn_value[1]
     IN  /\ out # <<>> => (out[1] \notin Whitespace /\ out[Len(out)] \notin Whitespace)
         /\ \A i \in 1..(Len(out) - 1) :
              ~(out[i] \in Whitespace /\ out[i + 1] \in Whitespace)
         /\ \A i \in 1..Len(out) : Whitelisted(out[i])

\* the search mode and the parameters that the configuration of a call asks for
ModeAsConfigured(c, cfg) ==
  LET k == Get(cfg, "k", DefaultK)
  IN  IF Get(cfg, "use_mmr", FALSE)
        THEN /\ c.search_type = "mmr"
             /\ DOMAIN c.search_kwargs = {"k", "fetch_k", "lambda_mult"}
             /\ c.search_kwargs.fetch_k = Get(cfg, "mmr_fetch_k", k * 2)
             /\ c.search_kwargs.lambda_mult = Get(cfg, "mmr_lambda", DefaultMmrLambda)
      ELSE IF Get(cfg, "score_threshold", NoneV) # NoneV
        THEN /\ c.search_type = "similarity_score_threshold"
             /\ DOMAIN c.search_kwargs = {"k", "score_threshold"}
             /\ c.search_kwargs.score_threshold = Get(cfg, "score_threshold", NoneV)[1]
      ELSE /\ c.search_type = "similarity"
           /\ DOMAIN c.search_kwargs = {"k"}

\* C22: the first index call for every query variant of a call uses "mmr"
\* with fetch_k and lambda when use_mmr is set, otherwise
\* "similarity_score_threshold" with the threshold when score_threshold is not
\* None, otherwise "similarity"; use_mmr wins when both are configured.  Any
\* other call for a variant is a plain-similarity retry after a raised call.
SearchModeAsConfigured ==
  \A t \in Threads : \A i \in 1..Len(calls[t]) :
    LET c == calls[t][i]
    IN  /\ c.attempt = "primary" => ModeAsConfigured(c, runtime_config[t])
        /\ c.attempt \in {"retriever_retry", "pipeline_retry"}
             => /\ c.search_type = "similarity"
                /\ i > 1
                /\ calls[t][i - 1].variant = c.variant
                /\ ~calls[t][i - 1].answered

\* C22 witness: both use_mmr and score_threshold are configured and the
\* index answered a first call for a variant in "mmr" mode.
SearchModeAsConfiguredWitness ==
  /\ Get(runtime_config[MainThread], "use_mmr", FALSE)
  /\ Get(runtime_config[MainThread], "score_threshold", NoneV) # NoneV
  /\ \E i \in 1..Len(calls[MainThread]) :
       /\ calls[MainThread][i].attempt = "primary"
       /\ calls[MainThread][i].search_type = "mmr"
       /\ calls[MainThread][i].answered

\* a Reranker method has been called and has returned or raised
RerankerCalled ==
  fn_value # NoneV /\ fn_args.fn \in {"rerank", "rerank_by_diversity"}

\* top_k is unset or an integer of at least 1
TopKUnsetOrPositive(top_k) ==
  top_k = NoneV \/ (top_k # IllTyped /\ top_k[1] >= 1)

\* C23: for a candidate list of length 0 or 1 and top_k unset or at least 1,
\* each of the relevance, diversity and hybrid strategies returns the input
\* candidates unchanged.
ShortListUnchanged ==
  (/\ RerankerCalled
   /\ Len(fn_args.documents) <= 1
   /\ TopKUnsetOrPositive(fn_args.top_k)
   /\ fn_args.fn = "rerank"
        => /\ fn_args.strategy \in {"relevance", "diversity", "hybrid"}
           /\ fn_args.kwargs = EmptyDict)
  => fn_value[1] = Returned(fn_args.documents)

\* C23 witness: the hybrid strategy was given one candidate and top_k = 1
ShortListUnchangedWitness ==
  /\ RerankCalled
  /\ fn_args.strategy = "hybrid"
  /\ fn_args.kwargs = EmptyDict
  /\ Len(fn_args.documents) = 1
  /\ fn_args.top_k = Some(1)
  /\ fn_value[1] = Returned(fn_args.documents)

\* the first index call made for each variant, in call order
PrimaryCalls(t) == SelectSeq(calls[t], LAMBDA c : c.attempt = "primary")

\* the candidates that the answered calls returned, concatenated in call order
RECURSIVE ConcatAnswers(_)
ConcatAnswers(cs) ==
  IF cs = <<>> THEN <<>>
  ELSE (IF Head(cs).answered
          THEN IndexSearch(Head(cs).query, Head(cs).search_type, Head(cs).search_kwargs)
          ELSE <<>>)
       \o ConcatAnswers(Tail(cs))

\* invoke of thread t missed the cache and has expanded its query
Missed(t) == "expand" \in stages[t]

DedupLongEnough(documents, min_content_length) ==
  SelectSeq(deduplicate_documents(documents),
            LAMBDA d : Len(Strip(d.page_content)) >= min_content_length)

\* C25: the output of deduplication and filtering holds only candidates whose
\* trimmed content length is at least min_content_length, holds at most
\* max_docs_before_rerank candidates, and is exactly the first
\* max_docs_before_rerank elements, order kept, of the deduplicated,
\* length-filtered sequence.
FilterOutputIsCappedPrefix ==
  (/\ fn_value # NoneV
   /\ ~fn_value[1].raised
   /\ Get(fn_args.config, "max_docs_before_rerank", Some(0)) # NoneV)
  => LET output == fn_value[1].value
         min_content_length ==
           Get(fn_args.config, "min_content_length", DefaultMinContentLength)
         cap == Get(fn_args.config, "max_docs_before_rerank",
                    Some(DefaultMaxDocsBeforeRerank))[1]
         kept == DedupLongEnough(fn_args.documents, min_content_length)
     IN  /\ \A i \in 1..Len(output) :
              Len(Strip(output[i].page_content)) >= min_content_length
         /\ Len(output) <= cap
         /\ output = SubSeq(kept, 1, Min(cap, Len(kept)))

\* C25 witness: of three candidates the first is dropped for its length and
\* the cap of 1 cuts the two that are left to the first of them.
FilterOutputIsCappedPrefixWitness ==
  /\ fn_value # NoneV
  /\ fn_args.config = [min_content_length |-> 2, max_docs_before_rerank |-> Some(1)]
  /\ fn_args.documents = <<CorpusPool[4], CorpusPool[1], CorpusPool[2]>>
  /\ fn_value[1] = Returned(<<CorpusPool[1]>>)

\* the largest Jaccard similarity of documents[idx] to the documents at the
\* positions in chosen, in units of 10^-7
LargestSimilarity(documents, chosen, idx) ==
  LET sims == {calculate_document_similarity(documents[idx], documents[s]) :
                 s \in chosen} \cup {0}
  IN  CHOOSE m \in sims : \A x \in sims : x <= m

\* lambda * relevance - (1 - lambda) * largest similarity, in units of 10^-8
MarginalRelevance(q, documents, chosen, idx, lambda10) ==
  lambda10 * calculate_relevance_score(q, documents[idx])
    - (10 - lambda10) * LargestSimilarity(documents, chosen, idx)

\* from its second element on, sel picks at every step the earliest of the
\* remaining positions of maximal marginal relevance
GreedySelection(q, documents, sel, lambda10) ==
  \A s \in 2..Len(sel) :
    LET chosen == {sel[j] : j \in 1..(s - 1)}
        rest == (1..Len(documents)) \ chosen
        score(i) == MarginalRelevance(q, documents, chosen, i, lambda10)
    IN  /\ sel[s] \in rest
        /\ \A r \in rest :
             /\ score(sel[s]) >= score(r)
             /\ score(sel[s]) = score(r) => sel[s] <= r

HybridReturned ==
  /\ fn_value # NoneV
  /\ fn_args.fn = "rerank_hybrid"
  /\ ~fn_value[1].raised

\* the combined score of the candidate at position p, times N and times the
\* sum of the weights: r_rel and r_div are the 0-based places of p in the
\* full Relevance and Diversity rankings
CombinedScore(q, documents, rel_weight, div_weight, p) ==
  LET N == Len(documents)
      rel == RelevanceOrder(q, documents)
      div == DiversityFullOrder(q, documents)
      r_rel == CHOOSE r \in 0..(N - 1) : rel[r + 1] = p
      r_div == CHOOSE r \in 0..(N - 1) : div[r + 1] = p
  IN  rel_weight * (N - r_rel) + div_weight * (N - r_div)

\* sel lists the positions of documents by descending combined score, equal
\* scores in input order
ByCombinedScore(q, documents, rel_weight, div_weight, sel) ==
  /\ \A p \in 1..Len(documents) : \E i \in 1..Len(sel) : sel[i] = p
  /\ \A i, j \in 1..Len(sel) :
       i < j
       => LET si == CombinedScore(q, documents, rel_weight, div_weight, sel[i])
              sj == CombinedScore(q, documents, rel_weight, div_weight, sel[j])
          IN  si > sj \/ (si = sj /\ sel[i] < sel[j])

\* C27: hybrid reranking orders the N candidates by descending combined
\* score w_r * (N - r_rel) / N + w_d * (N - r_div) / N, ties in input order,
\* and returns the first top_k of them (all of them when top_k is unset);
\* with diversity_weight = 0 and a positive relevance_weight the result is
\* the Relevance ranking cut to top_k.
HybridIsWeightedRankOrder ==
  (HybridReturned /\ fn_args.top_k # IllTyped)
  => LET documents == fn_args.documents
         N == Len(documents)
         n == IF fn_args.top_k = NoneV THEN N ELSE Min(fn_args.top_k[1], N)
         output == fn_value[1].value
     IN  /\ \E sel \in [1..N -> 1..N] :
              /\ ByCombinedScore(fn_args.query, documents,
                                 fn_args.relevance_weight,
                                 fn_args.diversity_weight, sel)
              /\ Len(output) = n
              /\ \A i \in 1..n : output[i] = documents[sel[i]]
         /\ (fn_args.diversity_weight = 0 /\ fn_args.relevance_weight > 0)
              => output = rerank_by_relevance(fn_args.query, documents,
                                              fn_args.top_k)

\* rerank has returned a list for the strategy "relevance"
RelevanceReturned ==
  /\ RerankCalled
  /\ fn_args.strategy = "relevance"
  /\ ~fn_value[1].raised

\* how many candidates come before the one at position p when documents are
\* put in descending order of relevance score, equal scores in input order
NumberBefore(q, documents, p) ==
  LET s == RelevanceScores(q, documents)
  IN  Cardinality({j \in 1..Len(documents) :
                     s[j] > s[p] \/ (s[j] = s[p] /\ j < p)})

\* C28: the Relevance strategy returns the candidates sorted by relevance
\* score in descending order, candidates with equal scores keeping their
\* relative input order, cut to the first top_k when top_k is given.
RelevanceIsStableSort ==
  RelevanceReturned
  => LET documents == fn_args.documents
         N == Len(documents)
         n == IF fn_args.top_k = NoneV THEN N ELSE Min(fn_args.top_k[1], N)
         output == fn_value[1].value
     IN  /\ Len(output) = n
         /\ \A p \in 1..N :
              NumberBefore(fn_args.query, documents, p) < n
              => output[NumberBefore(fn_args.query, documents, p) + 1] = documents[p]
         /\ \A i \in 1..(n - 1) :
              calculate_relevance_score(fn_args.query, output[i])
                >= calculate_relevance_score(fn_args.query, output[i + 1])

\* C28 witness: three candidates, the last two with the same score above
\* that of the first, top_k = 2: the two come out in their input order.
RelevanceIsStableSortWitness ==
  /\ RelevanceReturned
  /\ fn_args.query = <<"a", " ", "b">>
  /\ fn_args.top_k = Some(2)
  /\ fn_args.documents = <<RerankPool[2], RerankPool[3], RerankPool[1]>>
  /\ fn_value[1].value = <<RerankPool[3], RerankPool[1]>>
  /\ calculate_relevance_score(fn_args.query, RerankPool[3])
       = calculate_relevance_score(fn_args.query, RerankPool[1])

\* C29: for each of the strategies relevance, diversity and hybrid, every
\* list of N candidates and every given top_k >= 0, top_k = 0 included,
\* rerank returns exactly min(top_k, N) candidates, each of them a candidate
\* of the input taken from a position of its own.
RerankReturnsMinTopKN ==
  (/\ RerankCalled
   /\ fn_args.strategy \in {"relevance", "diversity", "hybrid"}
   /\ fn_args.kwargs = EmptyDict
   /\ fn_args.top_k \notin {NoneV, IllTyped})
  => LET documents == fn_args.documents
         N == Len(documents)
         n == Min(fn_args.top_k[1], N)
     IN  /\ ~fn_value[1].raised
         /\ Len(fn_value[1].value) = n
         /\ \E sel \in [1..n -> 1..N] :
              /\ \A i, j \in 1..n : sel[i] = sel[j] => i = j
              /\ \A i \in 1..n : fn_value[1].value[i] = documents[sel[i]]

\* C30: when clear_cache runs concurrently with invoke (caching enabled,
\* Vector Index healthy), a call that found its query in the cache returns
\* the cached list or the result of a full cold run under every
\* interleaving, never the result of the global fallback.
ClearCacheRaceIsHarmless ==
  \A t \in Threads :
    (/\ Done(t)
     /\ enable_cache
     /\ index_mode = "up"
     /\ query[t] \in DOMAIN cache_at_entry[t])
    => /\ path[t] \in {"cache", "finalize"}
       /\ path[t] = "cache" => result[t] = cache_at_entry[t][query[t]]

====
